---------------------------- MODULE Spec2Model ----------------------------
(***************************************************************************)
(* Model of the gymify ingestion pipeline:                                 *)
(*   - the Field Validator page (pages/currentroutine.py,                  *)
(*     database/data_validation.py, database/gsheet_connnector.py),        *)
(*   - the feature-engineering / muscle fan-out transformation             *)
(*     (services/transform_input_to_dwh.py),                               *)
(*   - the ETL script that loads it into the OLTP tables                   *)
(*     (tests/etl_personal_cleaning.py, services/dump_data.py).            *)
(*                                                                         *)
(* Conventions.  A nullable number is a tuple: NaN is << >> and the        *)
(* number v is <<v>>.  Weights are integers in grams (1 kg = 1000), dates  *)
(* are day numbers, a 1RM is an integer number of tenths of a kg, a role   *)
(* multiplier is an integer number of tenths (1.0 = 10, 0.5 = 5, 0.1 = 1). *)
(* Text that the code inspects character by character is a sequence of    *)
(* one-character strings.                                                  *)
(***************************************************************************)
EXTENDS Integers, Sequences, FiniteSets, TLC

VARIABLES
    \* ---- complete_cleaning applied to one batch (transform_input_to_dwh.py)
    cc_input,        \* the batch handed to complete_cleaning
    cc_metrics,      \* the bodyweight samples the script loaded (df_metrics)
    cc_result,       \* the pair complete_cleaning returned, once it has
    \* ---- the ETL script and the OLTP tables
    workouts,        \* table workouts: sequence of stored sets
    workouts_by_muscle, \* table workouts_by_muscle: sequence of stored rows
    track,           \* the TrackRecord sheet: sequence of logged rows
    run,             \* per script process: its position and its locals
    \* ---- the routine page and the Field Validator
    session_state,   \* st.session_state: the trigger and the six flags
    editor,          \* the rows of the editors of the page (combined_df)
    checkboxes,      \* per checkbox key: whether drawn, and its value
    gsheet_test,     \* worksheet 'Test': the rows load_data_into_gsheet wrote
    last_run         \* what the last run of the page script did

vars ==
    <<cc_input, cc_metrics, cc_result, workouts, workouts_by_muscle, track, run,
      session_state, editor, checkboxes, gsheet_test, last_run>>

page_vars == <<session_state, editor, checkboxes, gsheet_test, last_run>>

-----------------------------------------------------------------------------
(* Nullable numbers and small helpers                                      *)

NaN == << >>

Num(v) == <<v>>

IsNaN(x) == x = << >>

Val(x) == x[1]

\* The string column value pandas shows as NaN.
NA == "<NA>"

RECURSIVE SeqSum(_)
SeqSum(s) == IF s = << >> THEN 0 ELSE Head(s) + SeqSum(Tail(s))

RECURSIVE FlatMap(_, _)
FlatMap(F(_), s) == IF s = << >> THEN << >> ELSE F(Head(s)) \o FlatMap(F, Tail(s))

SeqRange(s) == {s[i] : i \in 1..Len(s)}

Abs(x) == IF x < 0 THEN -x ELSE x

\* Nearest integer to n/d (d # 0), a tie going to the even integer:
\* the rounding of numpy's round() and of Python's round().
RoundDiv(n, d) ==
    LET nn == IF d < 0 THEN -n ELSE n
        dd == Abs(d)
        q  == nn \div dd
        r  == nn % dd
    IN  IF 2 * r < dd THEN q
        ELSE IF 2 * r > dd THEN q + 1
        ELSE IF q % 2 = 0 THEN q ELSE q + 1

-----------------------------------------------------------------------------
(* Text helpers                                                            *)

\* str.capitalize() over the exercise names the model uses: first letter
\* upper case, every other letter lower case.
capitalize(name) ==
    CASE name \in {"Pull-ups", "pull-ups", "PULL-UPS"} -> "Pull-ups"
      [] name \in {"Bench press", "Bench Press", "bench press"} -> "Bench press"
      [] name \in {"Plank", "plank"} -> "Plank"
      [] OTHER -> name

\* Whether the text holds the separator " - " that str.split(' - ') splits on.
HasRangeSeparator(s) ==
    \E i \in 1..(Len(s) - 2) : s[i] = " " /\ s[i + 1] = "-" /\ s[i + 2] = " "

-----------------------------------------------------------------------------
(* Reference data                                                          *)

\* The rows create_exercise_dimension_table() returns: one per
\* (exercise, muscle, role).  "Plank" has no row.
MuscleRoles ==
    << [english_name |-> "Bench press", muscle_name |-> "Chest",
        rol |-> "primary", rol_multiplier |-> 10],
       [english_name |-> "Bench press", muscle_name |-> "Triceps",
        rol |-> "secondary", rol_multiplier |-> 5],
       [english_name |-> "Bench press", muscle_name |-> "Front delt",
        rol |-> "stabilizer", rol_multiplier |-> 1],
       [english_name |-> "Pull-ups", muscle_name |-> "Lats",
        rol |-> "primary", rol_multiplier |-> 10],
       [english_name |-> "Pull-ups", muscle_name |-> "Biceps",
        rol |-> "secondary", rol_multiplier |-> 5] >>

\* The default allow-list of add_real_weight_col.
weight_body_exercises ==
    {"Chin-ups", "Parallel bar dips", "Pull-ups", "Muscle-ups",
     "Neutral grip pull-ups", "Ring chin-ups", "Parallel bar dips 210",
     "Barbell squat"}

\* 50 kg, in grams: below it add_1rm_columns gives no 1RM.
MinRmWeight == 50000

\* The last rep count the Brzycki formula is applied to.
MaxRmReps == 8

-----------------------------------------------------------------------------
(* services/transform_input_to_dwh.py: the column functions, per row       *)

\* add_analytic_cols: df.repreal * df.weight (NaN when either is missing).
workload(repreal, weight) ==
    IF IsNaN(repreal) \/ IsNaN(weight) THEN NaN ELSE Num(Val(repreal) * Val(weight))

\* add_analytic_cols: np.where(df.rir <= 4, 1, 0), for a present rir.
effective_set(rir) == IF Val(rir) <= 4 THEN 1 ELSE 0

\* add_1rm_columns: df.repreal + df.rir.replace(-1, 0).fillna(0).
reps_potential(repreal, rir) ==
    Val(repreal) + (IF IsNaN(rir) THEN 0 ELSE IF Val(rir) = -1 THEN 0 ELSE Val(rir))

\* The Brzycki quotient real_weight / (1.0278 - 0.0278 * reps_potential),
\* .round(1): from grams to tenths of a kg.
Brzycki(grams, rp) == RoundDiv(grams * 100, 10278 - 278 * rp)

\* A variant that suppresses the estimate by the potential reps, not by the
\* reps performed.
one_rm_by_potential(real_weight, repreal, rp) ==
    IF IsNaN(real_weight) THEN NaN
    ELSE IF Val(real_weight) < MinRmWeight \/ rp <= 0 THEN NaN
    ELSE IF rp <= MaxRmReps THEN Num(Brzycki(Val(real_weight), rp))
    ELSE NaN

\* add_1rm_columns: the nested np.where.  A missing real_weight makes both
\* comparisons false and the quotient NaN.
one_rm(real_weight, repreal, rp) ==
    IF (~IsNaN(real_weight) /\ Val(real_weight) < MinRmWeight) \/ rp <= 0 THEN NaN
    ELSE IF Val(repreal) <= MaxRmReps
         THEN (IF IsNaN(real_weight) THEN NaN
               ELSE Num(Brzycki(Val(real_weight), rp)))
         ELSE NaN

\* A variant whose first band ends below 6.
repreal_range_below_six(repreal) ==
    IF IsNaN(repreal) \/ Val(repreal) <= -1 THEN NA
    ELSE IF Val(repreal) < 6 THEN "Fuerza"
    ELSE IF Val(repreal) <= 10 THEN "Hipertrofia-Fuerza"
    ELSE IF Val(repreal) <= 15 THEN "Hipertrofia-Resistencia"
    ELSE "Resistencia"

\* add_category_cols: pd.cut(df.repreal, bins=[-1, 6, 10, 15, inf]).
repreal_range(repreal) ==
    IF IsNaN(repreal) \/ Val(repreal) <= -1 THEN NA
    ELSE IF Val(repreal) <= 6 THEN "Fuerza"
    ELSE IF Val(repreal) <= 10 THEN "Hipertrofia-Fuerza"
    ELSE IF Val(repreal) <= 15 THEN "Hipertrofia-Resistencia"
    ELSE "Resistencia"

\* add_category_cols: pd.cut(df.rir, bins=[-2, 0, 3, 4, inf]).
rir_range(rir) ==
    IF IsNaN(rir) \/ Val(rir) <= -2 THEN NA
    ELSE IF Val(rir) <= 0 THEN "F|0"
    ELSE IF Val(rir) <= 3 THEN "1|2|3"
    ELSE IF Val(rir) <= 4 THEN "4"
    ELSE "+5"

\* define_progression_exercises: df.exercise.map(progression_exercises).
progress_tracker(exercise) ==
    IF exercise \in {"Pull-ups", "Romanian deadlift", "Parallel bar dips",
                     "Smith machine squat"} THEN "Compound"
    ELSE IF exercise \in {"Preacher curl machine", "Dumbbell lateral raise",
                          "Incline machine press", "Machine row",
                          "Calf raise on machine"} THEN "Isolate"
    ELSE NA

-----------------------------------------------------------------------------
(* Bodyweight: add_cols_analytics_metrics and add_real_weight_col          *)

\* A variant that takes the change between two samples for the daily change.
add_cols_analytics_metrics_undivided(df_metrics) ==
    [i \in 1..Len(df_metrics) |->
        IF i = 1
        THEN [fecha_prev |-> NaN, peso_prev |-> NaN,
              fecha |-> df_metrics[i].fecha, peso |-> df_metrics[i].peso,
              delta_daily |-> NaN]
        ELSE [fecha_prev |-> Num(df_metrics[i - 1].fecha),
              peso_prev |-> Num(df_metrics[i - 1].peso),
              fecha |-> df_metrics[i].fecha, peso |-> df_metrics[i].peso,
              delta_daily |-> Num(df_metrics[i].peso - df_metrics[i - 1].peso)]]

\* add_cols_analytics_metrics: each sample with the previous sample shifted
\* beside it and the daily change, rounded to 3 decimals of a kg (1 gram).
add_cols_analytics_metrics(df_metrics) ==
    [i \in 1..Len(df_metrics) |->
        IF i = 1
        THEN [fecha_prev |-> NaN, peso_prev |-> NaN,
              fecha |-> df_metrics[i].fecha, peso |-> df_metrics[i].peso,
              delta_daily |-> NaN]
        ELSE LET delta_peso  == df_metrics[i].peso - df_metrics[i - 1].peso
                 delta_fecha == df_metrics[i].fecha - df_metrics[i - 1].fecha
             IN  [fecha_prev |-> Num(df_metrics[i - 1].fecha),
                  peso_prev |-> Num(df_metrics[i - 1].peso),
                  fecha |-> df_metrics[i].fecha, peso |-> df_metrics[i].peso,
                  delta_daily |-> IF delta_fecha = 0 THEN NaN
                                  ELSE Num(RoundDiv(delta_peso, delta_fecha))]]

\* The weight of the sample with the latest date (max_weight).
LastSampleWeight(df_metrics) ==
    LET i == CHOOSE k \in 1..Len(df_metrics) :
                 \A j \in 1..Len(df_metrics) : df_metrics[j].fecha <= df_metrics[k].fecha
    IN  df_metrics[i].peso

\* add_real_weight_col with df_metrics: the rows the LEFT JOIN
\*   ON df.fecha >= fecha_prev AND df.fecha < fecha
\* gives for one training date, each as its current_bodyweight (np.round
\* to 2 decimals of a kg: 10 grams).  No match: the latest sample's weight.
current_bodyweight(fecha, df_metrics) ==
    LET ss == add_cols_analytics_metrics(df_metrics)
        hit(m) == ~IsNaN(m.fecha_prev) /\ fecha >= Val(m.fecha_prev) /\ fecha < m.fecha
        matched == SelectSeq(ss, hit)
        at(m) == IF IsNaN(m.delta_daily) THEN Val(m.peso_prev)
                 ELSE (fecha - Val(m.fecha_prev)) * Val(m.delta_daily) + Val(m.peso_prev)
    IN  IF matched = << >>
        THEN << 10 * RoundDiv(LastSampleWeight(df_metrics), 10) >>
        ELSE [i \in 1..Len(matched) |-> 10 * RoundDiv(at(matched[i]), 10)]

\* add_real_weight_col is handed either no df_metrics (None) or the samples.
NoMetrics == [given |-> FALSE, samples |-> << >>]

WithMetrics(samples) == [given |-> TRUE, samples |-> samples]

\* add_real_weight_col, for one row: the (current_bodyweight, real_weight)
\* pairs of the rows it becomes.  With df_metrics:
\*   np.where(exercise.isin(weight_body_exercises),
\*            weight + current_bodyweight, weight);
\* without: current_bodyweight = NaN and real_weight = weight.
add_real_weight_col(exercise, weight, fecha, df_metrics) ==
    IF ~df_metrics.given
    THEN << [current_bodyweight |-> NaN, real_weight |-> weight] >>
    ELSE LET cb == current_bodyweight(fecha, df_metrics.samples)
         IN  [i \in 1..Len(cb) |->
                [current_bodyweight |-> Num(cb[i]),
                 real_weight |->
                    IF exercise \in weight_body_exercises
                    THEN (IF IsNaN(weight) THEN NaN ELSE Num(Val(weight) + cb[i]))
                    ELSE weight]]

-----------------------------------------------------------------------------
(* Muscle fan-out                                                          *)

\* The mapping rows whose capitalized english_name equals the exercise:
\* the right-hand rows df.merge(how='left') pairs with one set.
RolesOf(exercise, df_muscleroles) ==
    SelectSeq(df_muscleroles, LAMBDA e : capitalize(e.english_name) = exercise)

\* A variant that counts a stabilizer as half a set.
sets_by_muscle_no_stabilizer(rol_multiplier) ==
    IF ~IsNaN(rol_multiplier) /\ Val(rol_multiplier) = 10 THEN 10 ELSE 5

\* add_muscle_analytic_cols: np.where(m == 1, 1, np.where(m == 0.1, 0, 0.5)),
\* in tenths of a set.  A missing multiplier equals neither and gives 0.5.
sets_by_muscle(rol_multiplier) ==
    IF ~IsNaN(rol_multiplier) /\ Val(rol_multiplier) = 10 THEN 10
    ELSE IF ~IsNaN(rol_multiplier) /\ Val(rol_multiplier) = 1 THEN 0
    ELSE 5

\* add_muscle_analytic_cols and add_effective_set_by_muscle_col on one row
\* of the merge: the set and the (possibly missing) mapping columns.
MuscleRow(set, muscle_name, rol_multiplier) ==
    [id_set |-> set.id_set, muscle_name |-> muscle_name,
     fecha |-> set.fecha, exercise |-> set.exercise,
     repreal |-> set.repreal, weight |-> set.weight, rir |-> set.rir,
     workload |-> set.workload,
     workload_by_muscle |->
        IF IsNaN(set.workload) \/ IsNaN(rol_multiplier) THEN NaN
        ELSE Num(Val(set.workload) * Val(rol_multiplier)),
     sets_by_muscle |-> sets_by_muscle(rol_multiplier),
     is_set_principal_for_muscle |->
        IF sets_by_muscle(rol_multiplier) = 10 THEN 1 ELSE 0,
     real_weight |-> set.real_weight, effective_set |-> set.effective_set,
     effective_sets_by_muscle |-> sets_by_muscle(rol_multiplier) * set.effective_set,
     rm |-> set.rm]

\* merge_muscleroles_and_inputdf (how='left') followed by the muscle columns,
\* for one set: one row per mapping row, and for a set without mapping rows
\* the set itself with the mapping columns missing.
merge_muscleroles_and_inputdf(set, df_muscleroles) ==
    LET m == RolesOf(set.exercise, df_muscleroles)
    IN  IF m = << >>
        THEN << MuscleRow(set, NA, NaN) >>
        ELSE [i \in 1..Len(m) |->
                MuscleRow(set, m[i].muscle_name, Num(m[i].rol_multiplier))]

-----------------------------------------------------------------------------
(* complete_cleaning                                                       *)

\* The largest id_set of table workouts:
\*   SELECT id_set FROM workouts ORDER BY id_set DESC LIMIT 1
LastId(table) ==
    CHOOSE m \in {table[i].id_set : i \in 1..Len(table)} :
        \A i \in 1..Len(table) : table[i].id_set <= m

\* A variant that starts the batch at the last stored id.
add_id_set_col_from_last(n, last_id) == [i \in 1..n |-> last_id + i - 1]

\* add_id_set_col: range(last_id + 1, last_id + 1 + len(df)).
add_id_set_col(n, last_id) == [i \in 1..n |-> last_id + i]

\* What makes one of complete_cleaning's try blocks return (None, None):
\*   basic_cleanings: astype(float) / astype("Int64") on a non-numeric cell;
\*   add_id_set_col: iloc[0, 0] on the empty result of the id query;
\*   add_analytic_cols: np.where over the comparison of a missing rir;
\*   add_1rm_columns: np.where over the comparison of missing reps;
\*   reorder_cols: no 'repmax' column when no rango was split in two.
CleaningFails(input_user_df, table) ==
    \/ \E i \in 1..Len(input_user_df) : input_user_df[i].text_cell
    \/ table = << >>
    \/ \E i \in 1..Len(input_user_df) : IsNaN(input_user_df[i].rir)
    \/ \E i \in 1..Len(input_user_df) : IsNaN(input_user_df[i].reps)
    \/ ~ \E i \in 1..Len(input_user_df) : HasRangeSeparator(input_user_df[i].rango)

\* add_training_days_on_week_col: df['training_days_on_week'] = 0, whatever
\* the date of the set.
add_training_days_on_week_col(fecha) == 0

\* add_ismaxrm_column: df['is_maxrm'] = 0, whatever the 1RM of the set.
add_ismaxrm_column(rm) == 0

\* The feature-engineering block of complete_cleaning on row i, given its id.
EnrichedSet(r, id) ==
    LET exercise == capitalize(r.ejercicio)
        rw == add_real_weight_col(exercise, r.peso, r.fecha, NoMetrics)[1].real_weight
        rp == reps_potential(r.reps, r.rir)
    IN  [id_set |-> id, fecha |-> r.fecha, exercise |-> exercise,
         repreal |-> r.reps, weight |-> r.peso, rir |-> r.rir,
         workload |-> workload(r.reps, r.peso),
         real_weight |-> rw,
         effective_set |-> effective_set(r.rir),
         training_days_on_week |-> add_training_days_on_week_col(r.fecha),
         is_maxrm |-> add_ismaxrm_column(one_rm(rw, r.reps, rp)),
         rm |-> one_rm(rw, r.reps, rp),
         repreal_range |-> repreal_range(r.reps),
         rir_range |-> rir_range(r.rir),
         progress_tracker |-> progress_tracker(exercise)]

\* complete_cleaning(input_user_df, muscle_roles), reading table workouts
\* for the last id: the pair (df, df_by_muscle), or (None, None).
complete_cleaning(input_user_df, muscle_roles, table) ==
    IF CleaningFails(input_user_df, table)
    THEN [ok |-> FALSE, df |-> << >>, df_by_muscle |-> << >>]
    ELSE LET ids == add_id_set_col(Len(input_user_df), LastId(table))
             df == [i \in 1..Len(input_user_df) |->
                        EnrichedSet(input_user_df[i], ids[i])]
             fan(set) == merge_muscleroles_and_inputdf(set, muscle_roles)
         IN  [ok |-> TRUE, df |-> df, df_by_muscle |-> FlatMap(fan, df)]

-----------------------------------------------------------------------------
(* Inputs of the model                                                     *)

\* Rep-range texts of the sheet: "8 - 12" and "12".
RangoTwo == << "8", " ", "-", " ", "1", "2" >>

RangoOne == << "1", "2" >>

\* The longest batch handed to complete_cleaning on its own.
MaxBatch == 2

\* One logged set of the sheet.
SheetRow(fecha, ejercicio, rango, reps, peso, rir, text_cell) ==
    [fecha |-> fecha, ejercicio |-> ejercicio, rango |-> rango,
     reps |-> reps, peso |-> peso, rir |-> rir, text_cell |-> text_cell]

\* The sets a batch is probed with: every combination of the values at and
\* around the thresholds of the column functions.
ProbeRows ==
    { SheetRow(10, e, RangoTwo, reps, peso, rir, FALSE) :
        e \in {"Bench press", "PULL-UPS", "Plank"},
        reps \in {Num(0), Num(5), Num(8), Num(9), Num(30), NaN},
        peso \in {Num(0), Num(20000), Num(49750), Num(50000), Num(100000), NaN},
        rir \in {Num(-2), Num(-1), Num(0), Num(2), Num(4), Num(5), NaN} }

\* The rows that may accompany a probed set in its batch: a plain set, a
\* set whose range is a single number, a set with a non-numeric cell.
CompanionRows ==
    { SheetRow(10, "Bench press", RangoTwo, Num(5), Num(100000), Num(2), FALSE),
      SheetRow(10, "Plank", RangoOne, Num(5), Num(100000), Num(2), FALSE),
      SheetRow(10, "Bench press", RangoTwo, Num(5), Num(100000), Num(2), TRUE) }

\* The bodyweight logs the script may have loaded: 79 kg on day 0 and 81 kg
\* on day 20.
BodyweightLogs ==
    { << [fecha |-> 0, peso |-> 79000], [fecha |-> 20, peso |-> 81000] >> }

\* The set stored before the first run of the model.
SeedInput == SheetRow(0, "Bench press", RangoTwo, Num(5), Num(100000), Num(2), FALSE)

SeedSet == EnrichedSet(SeedInput, 1)

PendingResult == [done |-> FALSE, ok |-> FALSE, df |-> << >>, df_by_muscle |-> << >>]

IdleRun ==
    [pc |-> "idle", records |-> << >>, max_date_sql |-> 0, df |-> << >>,
     last_id |-> 0, out |-> PendingResult, dumped |-> FALSE,
     dumped_by_muscle |-> FALSE, runs |-> 0]

\* Every sequence over S of length at most n.
SeqsUpTo(S, n) == UNION { [1..k -> S] : k \in 0..n }

\* The batches complete_cleaning is applied to: a probed set and its
\* companions.
Batches ==
    { << r >> \o tail : r \in ProbeRows, tail \in SeqsUpTo(CompanionRows, MaxBatch - 1) }

\* The muscle rows of a sequence of sets.
FanOut(sets) ==
    LET fan(set) == merge_muscleroles_and_inputdf(set, MuscleRoles)
    IN  FlatMap(fan, sets)

-----------------------------------------------------------------------------
(* Text of the Rango column (database/data_validation.py)                  *)
(* A text is a sequence of one-character strings; the letter u with an     *)
(* acute accent is written "u'" and its capital "U'".                      *)

Digits == {"0", "1", "2", "3", "4", "5", "6", "7", "8", "9"}

DigitChars == << "0", "1", "2", "3", "4", "5", "6", "7", "8", "9" >>

DigitValue(c) == (CHOOSE i \in 1..10 : DigitChars[i] = c) - 1

LowerLetters ==
    << "a", "b", "c", "d", "e", "f", "g", "h", "i", "j", "k", "l", "m", "n",
       "o", "p", "q", "r", "s", "t", "u", "v", "w", "x", "y", "z", "u'" >>

UpperLetters ==
    << "A", "B", "C", "D", "E", "F", "G", "H", "I", "J", "K", "L", "M", "N",
       "O", "P", "Q", "R", "S", "T", "U", "V", "W", "X", "Y", "Z", "U'" >>

IsCased(c) == c \in SeqRange(LowerLetters) \cup SeqRange(UpperLetters)

lower(c) ==
    IF c \in SeqRange(UpperLetters)
    THEN LowerLetters[CHOOSE i \in 1..Len(UpperLetters) : UpperLetters[i] = c]
    ELSE c

upper(c) ==
    IF c \in SeqRange(LowerLetters)
    THEN UpperLetters[CHOOSE i \in 1..Len(LowerLetters) : LowerLetters[i] = c]
    ELSE c

\* str.lower()
str_lower(s) == [i \in 1..Len(s) |-> lower(s[i])]

\* str.title(): a cased character is upper case after an uncased one (or at
\* the start) and lower case after a cased one.
str_title(s) ==
    [i \in 1..Len(s) |->
        IF i = 1 \/ ~IsCased(s[i - 1]) THEN upper(s[i]) ELSE lower(s[i])]

\* str.capitalize(): first character upper case, the rest lower case.
str_capitalize(s) ==
    [i \in 1..Len(s) |-> IF i = 1 THEN upper(s[i]) ELSE lower(s[i])]

RECURSIVE lstrip(_)
lstrip(s) == IF s # << >> /\ Head(s) = " " THEN lstrip(Tail(s)) ELSE s

RECURSIVE rstrip(_)
rstrip(s) ==
    IF s # << >> /\ s[Len(s)] = " " THEN rstrip(SubSeq(s, 1, Len(s) - 1)) ELSE s

\* str.strip()
strip(s) == rstrip(lstrip(s))

\* The last index of the run of digits that starts at index i.
RECURSIVE DigitRunEnd(_, _)
DigitRunEnd(s, i) ==
    IF i < Len(s) /\ s[i + 1] \in Digits THEN DigitRunEnd(s, i + 1) ELSE i

\* The last index of the match of \d+(?:\.\d+)? that starts at index i.
NumberEnd(s, i) ==
    LET e == DigitRunEnd(s, i)
    IN  IF e + 2 <= Len(s) /\ s[e + 1] = "." /\ s[e + 2] \in Digits
        THEN DigitRunEnd(s, e + 2)
        ELSE e

\* re.findall(r"\d+(?:\.\d+)?", s) from index i on: the matches from left to
\* right, none overlapping.
RECURSIVE findall_numbers(_, _)
findall_numbers(s, i) ==
    IF i > Len(s) THEN << >>
    ELSE IF s[i] \in Digits
         THEN LET e == NumberEnd(s, i)
              IN  << SubSeq(s, i, e) >> \o findall_numbers(s, e + 1)
         ELSE findall_numbers(s, i + 1)

RECURSIVE DigitsValue(_)
DigitsValue(ds) ==
    IF ds = << >> THEN 0
    ELSE 10 * DigitsValue(SubSeq(ds, 1, Len(ds) - 1)) + DigitValue(ds[Len(ds)])

RECURSIVE Pow10(_)
Pow10(k) == IF k = 0 THEN 1 ELSE 10 * Pow10(k - 1)

\* A parsed number n / 10^k without trailing zeros in its fraction.
RECURSIVE Normalised(_)
Normalised(x) ==
    IF x.k > 0 /\ x.n % 10 = 0 THEN Normalised([n |-> x.n \div 10, k |-> x.k - 1])
    ELSE x

\* float(tok) of a match of \d+(?:\.\d+)?.
float_of_match(tok) ==
    LET dot == IF "." \in SeqRange(tok)
               THEN CHOOSE i \in 1..Len(tok) : tok[i] = "."
               ELSE Len(tok) + 1
        int_part  == SubSeq(tok, 1, dot - 1)
        frac_part == SubSeq(tok, dot + 1, Len(tok))
    IN  Normalised([n |-> DigitsValue(int_part \o frac_part), k |-> Len(frac_part)])

FloatLess(a, b) == a.n * Pow10(b.k) < b.n * Pow10(a.k)

RECURSIVE DigitsOf(_)
DigitsOf(n) ==
    IF n < 10 THEN << DigitChars[n + 1] >>
    ELSE DigitsOf(n \div 10) \o << DigitChars[(n % 10) + 1] >>

\* The k digits of the fraction f, zero-padded on the left.
RECURSIVE FractionDigits(_, _)
FractionDigits(f, k) ==
    IF k = 0 THEN << >>
    ELSE FractionDigits(f \div 10, k - 1) \o << DigitChars[(f % 10) + 1] >>

\* f"{x:g}" of a number of at most six significant digits below 10^6: the
\* shortest decimal notation, no trailing zeros, no point for an integer.
format_g(x) ==
    IF x.k = 0 THEN DigitsOf(x.n)
    ELSE DigitsOf(x.n \div Pow10(x.k)) \o << "." >>
            \o FractionDigits(x.n % Pow10(x.k), x.k)

Unsigned(val) == IF val # << >> /\ Head(val) \in {"+", "-"} THEN Tail(val) ELSE val

\* Digits with at most one point, at least one digit.
IsDecimal(u) ==
    /\ \A i \in 1..Len(u) : u[i] \in Digits \cup {"."}
    /\ \E i \in 1..Len(u) : u[i] \in Digits
    /\ \A i, j \in 1..Len(u) : (u[i] = "." /\ u[j] = ".") => i = j

\* Whether float(val) returns (val already stripped): a signed decimal, with
\* or without an exponent, or one of inf, infinity, nan in any case.
float_accepts(val) ==
    LET u == Unsigned(val)
    IN  \/ IsDecimal(u)
        \/ str_lower(u) \in { << "i", "n", "f" >>, << "n", "a", "n" >>,
                              << "i", "n", "f", "i", "n", "i", "t", "y" >> }
        \/ \E i \in 2..(Len(u) - 1) :
              /\ lower(u[i]) = "e"
              /\ IsDecimal(SubSeq(u, 1, i - 1))
              /\ LET x == Unsigned(SubSeq(u, i + 1, Len(u)))
                 IN  x # << >> /\ \A j \in 1..Len(x) : x[j] \in Digits

eh_techniques ==
    { << "M", "y", "o", "-", "r", "e", "p", "s" >>,
      << "P", "a", "r", "c", "i", "a", "l", "e", "s" >>,
      << "D", "r", "o", "p", "s", "e", "t" >>,
      << "R", "e", "s", "t", "-", "p", "a", "u", "s", "e" >>,
      << "C", "l", "u'", "s", "t", "e", "r" >> }

\* Line 23: f"{a:g} - {b:g}".
format_range(a, b) == format_g(a) \o << " ", "-", " " >> \o format_g(b)

\* A variant that formats the two numbers in the order they were found.
unsorted_range(x, y) == format_range(x, y)

\* Line 22: a, b = sorted(map(float, nums)).
sorted_range(x, y) == IF FloatLess(y, x) THEN format_range(y, x) ELSE format_range(x, y)

\* A variant that formats a lone number anew from its parsed value.
clean_stripped_reparsed(val, nums) ==
    IF Len(nums) = 2
    THEN sorted_range(float_of_match(nums[1]), float_of_match(nums[2]))
    ELSE IF float_accepts(val) /\ Len(nums) = 1 THEN format_g(float_of_match(nums[1]))
    ELSE str_title(str_lower(val))

\* Lines 21-33, val being the stripped text and nums the numbers found in it.
clean_stripped(val, nums) ==
    IF Len(nums) = 2
    THEN sorted_range(float_of_match(nums[1]), float_of_match(nums[2]))
    ELSE IF float_accepts(val) THEN val
    ELSE str_title(str_lower(val))

\* clean_rango(value); a null cell is the empty text.
clean_rango(value) ==
    IF value = << >> THEN << >>
    ELSE clean_stripped(strip(value), findall_numbers(strip(value), 1))

\* A variant that compares the title-cased text with the technique names.
is_valid_rango_title(val) ==
    LET val_str == strip(val)
    IN  IF val = << >> THEN TRUE
        ELSE IF \E i \in 1..Len(val_str) : val_str[i] \in Digits THEN TRUE
        ELSE str_title(str_lower(val_str)) \in eh_techniques

\* is_valid_rango(val)
is_valid_rango(val) ==
    LET val_str == strip(val)
    IN  IF val = << >> THEN TRUE
        ELSE IF \E i \in 1..Len(val_str) : val_str[i] \in Digits THEN TRUE
        ELSE str_capitalize(str_lower(val_str)) \in eh_techniques
-----------------------------------------------------------------------------
(* The Field Validator: validate_current_routine                           *)
(* (database/data_validation.py) on the batch of the routine page          *)

\* An RIR cell: a number, a null, or a text.
RirNum(v) == [kind |-> "num", num |-> v, text |-> << >>]

RirNaN == [kind |-> "nan", num |-> 0, text |-> << >>]

RirText(t) == [kind |-> "text", num |-> 0, text |-> t]

\* str(n) of an integer.
str_of_int(n) == IF n < 0 THEN << "-" >> \o DigitsOf(-n) ELSE DigitsOf(n)

\* str(int(x)) of a cell: int() raises ValueError on a null and on a text
\* that is not a signed run of digits.
str_int(x) ==
    LET u == Unsigned(strip(x.text))
        is_integer_text == u # << >> /\ \A i \in 1..Len(u) : u[i] \in Digits
        sign == IF strip(x.text) # << >> /\ Head(strip(x.text)) = "-" THEN -1 ELSE 1
    IN  CASE x.kind = "num" -> [raised |-> FALSE, value |-> RirText(str_of_int(x.num))]
          [] x.kind = "nan" -> [raised |-> TRUE, value |-> x]
          [] x.kind = "text" ->
                IF is_integer_text
                THEN [raised |-> FALSE,
                      value |-> RirText(str_of_int(sign * DigitsValue(u)))]
                ELSE [raised |-> TRUE, value |-> x]

\* One row of the editors of the page.
EditorRow(ejercicio, rango, reps, peso, rir) ==
    [Ejercicio |-> ejercicio, Rango |-> rango, Reps |-> reps, Peso |-> peso, RIR |-> rir]

\* df[numeric_cols].sum(axis=1), in thousandths: a null counts as 0.
NumericSum(r) ==
    (IF IsNaN(r.Reps) THEN 0 ELSE 1000 * Val(r.Reps))
        + (IF IsNaN(r.Peso) THEN 0 ELSE Val(r.Peso))

valid_rirs ==
    { << "f" >>, << "F" >>, << "0" >>, << "1" >>, << "2" >>, << "3" >>,
      << "4" >>, << "5" >> }

\* The checkboxes of the validator, by key.
CheckKeys == {"check_empty", "check_peso", "check_reps", "check_combo"}

\* st.session_state before the page has run.
NewSession ==
    [trigger_guardado |-> FALSE, confirmed_rir |-> FALSE, confirmed_empty |-> FALSE,
     confirmed_peso |-> FALSE, confirmed_reps |-> FALSE, confirmed_combo |-> FALSE,
     confirmed_rango |-> FALSE]

\* A variant of the list without the flag of the high weights.
checks_without_peso(ss) ==
    << ss.confirmed_rir, ss.confirmed_empty, ss.confirmed_reps,
       ss.confirmed_combo, ss.confirmed_rango >>

\* Lines 146-153: the list `checks`.
checks(ss) ==
    << ss.confirmed_rir, ss.confirmed_empty, ss.confirmed_peso,
       ss.confirmed_reps, ss.confirmed_combo, ss.confirmed_rango >>

all(bs) == \A i \in 1..Len(bs) : bs[i]

\* A variant that rounds to a tenth of a kilogram.
round_to_tenth(peso) == IF peso = 0 THEN 0 ELSE 100 * RoundDiv(peso, 100)

\* Line 167: round(x * 4) / 4, in grams.
round_to_quarter(peso) == IF peso = 0 THEN 0 ELSE 250 * RoundDiv(peso * 4, 1000)

\* df['Ejercicio'].ffill(): a null takes the value of the row above.
RECURSIVE ffill(_, _)
ffill(rows, above) ==
    IF rows = << >> THEN << >>
    ELSE LET e == IF Head(rows).Ejercicio = NA THEN above ELSE Head(rows).Ejercicio
         IN  << [Head(rows) EXCEPT !.Ejercicio = e] >> \o ffill(Tail(rows), e)

\* Lines 160-167: the final cleaning of the batch.
final_cleaning(df) ==
    LET filled == [i \in 1..Len(df) |->
                     [df[i] EXCEPT
                        !.RIR  = IF df[i].RIR = RirText(<< "f" >>)
                                 THEN RirText(<< "F" >>) ELSE df[i].RIR,
                        !.Reps = IF IsNaN(df[i].Reps) THEN Num(0) ELSE df[i].Reps,
                        !.Peso = IF IsNaN(df[i].Peso) THEN Num(0)
                                 ELSE Num(round_to_quarter(Val(df[i].Peso)))]]
    IN  ffill(filled, NA)

\* What one invocation of the validator leaves: whether it raised, whether
\* it returned None, the batch it returned, st.session_state, and the
\* checkboxes it drew.
Invocation(raised, none, df, ss, shown) ==
    [raised |-> raised, none |-> none, df |-> df, session_state |-> ss, shown |-> shown]

\* Lines 119-157: the three confirmable anomalies and the global
\* confirmation; ask_empty is whether line 112 asked for the empty sets.
validacion_confirmable(df, ss, ticked, ask_empty) ==
    LET pesos_altos == SelectSeq(df, LAMBDA r : ~IsNaN(r.Peso) /\ Val(r.Peso) >= 300000)
        reps_altas == SelectSeq(df, LAMBDA r : ~IsNaN(r.Reps) /\ Val(r.Reps) >= 50)
        combo == SelectSeq(df, LAMBDA r :
                    \/ r.Reps = Num(0) /\ r.Peso # Num(0)
                    \/ r.Reps # Num(0) /\ r.Peso = Num(0))
        shown == (IF ask_empty THEN {"check_empty"} ELSE {})
                    \cup (IF pesos_altos # << >> THEN {"check_peso"} ELSE {})
                    \cup (IF reps_altas # << >> THEN {"check_reps"} ELSE {})
                    \cup (IF combo # << >> THEN {"check_combo"} ELSE {})
        ss143 == [ss EXCEPT
                    !.confirmed_empty = IF ask_empty THEN ticked["check_empty"] ELSE TRUE,
                    !.confirmed_peso  = IF pesos_altos # << >>
                                        THEN ticked["check_peso"] ELSE TRUE,
                    !.confirmed_reps  = IF reps_altas # << >>
                                        THEN ticked["check_reps"] ELSE TRUE,
                    !.confirmed_combo = IF combo # << >>
                                        THEN ticked["check_combo"] ELSE TRUE]
    IN  IF ~all(checks(ss143)) THEN Invocation(FALSE, TRUE, << >>, ss143, shown)
        ELSE Invocation(FALSE, FALSE, final_cleaning(df), ss143, shown)

\* Lines 110-116: the empty sets; len(df) = 0 divides by zero.
validacion_sets_vacios(df, ss, ticked) ==
    IF Len(df) = 0 THEN Invocation(TRUE, FALSE, << >>, ss, {})
    ELSE validacion_confirmable(df, ss, ticked,
            2 * Len(SelectSeq(df, LAMBDA r : NumericSum(r) = 0)) > Len(df))

\* Lines 102-107: the RIR rule; the flag is set when no row fails and is
\* left as it is otherwise.
validacion_rir(df, ss, ticked) ==
    validacion_sets_vacios(df,
        IF SelectSeq(df, LAMBDA r : NumericSum(r) # 0 /\ r.RIR.text \notin valid_rirs)
              # << >>
        THEN ss
        ELSE [ss EXCEPT !.confirmed_rir = TRUE],
        ticked)

\* Line 101: `x != "F" or "f"` is true of every x, so str(int(x)) is applied
\* to every cell.
coercion_rir(df, ss, ticked) ==
    IF \E i \in 1..Len(df) : str_int(df[i].RIR).raised
    THEN Invocation(TRUE, FALSE, << >>, ss, {})
    ELSE validacion_rir([i \in 1..Len(df) |->
                            [df[i] EXCEPT !.RIR = str_int(df[i].RIR).value]],
                        ss, ticked)

\* Lines 93-98: the range rule on the cleaned ranges; the flag is set when
\* no row fails and is left as it is otherwise.
validacion_rango(df, ss, ticked) ==
    coercion_rir(df,
        IF SelectSeq(df, LAMBDA r : ~is_valid_rango(r.Rango)) # << >>
        THEN ss
        ELSE [ss EXCEPT !.confirmed_rango = TRUE],
        ticked)

\* Line 92: df['Rango'].apply(clean_rango).
limpiar_rangos(df, ss, ticked) ==
    validacion_rango([i \in 1..Len(df) |->
                        [df[i] EXCEPT !.Rango = clean_rango(df[i].Rango)]],
                     ss, ticked)

\* validate_current_routine(df) under session state ss, the checkboxes
\* holding the values `ticked`.  Line 70 drops the sets with neither reps
\* nor weight.
validate_current_routine(df, ss, ticked) ==
    limpiar_rangos(SelectSeq(df, LAMBDA r : NumericSum(r) # 0), ss, ticked)

-----------------------------------------------------------------------------
(* The routine page (pages/currentroutine.py, lines 185-213): one run of   *)
(* the script per action of the athlete                                    *)

\* Line 195: str(int(x)) if x != "F" else x.
coerce_rir(x) ==
    IF x = RirText(<< "F" >>) THEN [raised |-> FALSE, value |-> x] ELSE str_int(x)

\* load_data_into_gsheet -> values_update(worksheet_name, ...): the rows are
\* written from the first row of the sheet on; rows below them stay.
load_data_into_gsheet(sheet, df) ==
    [values  |-> df \o SubSeq(sheet.values, Len(df) + 1, Len(sheet.values)),
     updates |-> sheet.updates + 1]

\* Worksheet 'Test' before any write: its rows, and the number of committed
\* values_update calls.
EmptySheet == [values |-> << >>, updates |-> 0]

NoChecks == [k \in CheckKeys |-> [shown |-> FALSE, value |-> FALSE]]

\* What the last run of the script did.
LastRun(outcome, invoked, df, validated_df, flags) ==
    [outcome |-> outcome, invoked |-> invoked, df |-> df,
     validated_df |-> validated_df, checks |-> flags]

NoRun == LastRun("no run", FALSE, << >>, << >>, checks(NewSession))

\* A variant in which no checkbox keeps its value from one run to the next.
Drawn_unticked(cb, shown) ==
    [k \in CheckKeys |-> [shown |-> k \in shown, value |-> FALSE]]

\* A checkbox that a run does not draw loses its value.
Drawn(cb, shown) ==
    [k \in CheckKeys |-> [shown |-> k \in shown, value |-> k \in shown /\ cb[k].value]]

\* Lines 189-213 with st.session_state = ss, the editors holding the batch
\* ed and the checkboxes cb.
ScriptRun(ss, ed, cb) ==
    LET ticked == [k \in CheckKeys |-> cb[k].value]
        raised195 == \E i \in 1..Len(ed) : coerce_rir(ed[i].RIR).raised
        combined_df == [i \in 1..Len(ed) |->
                          [ed[i] EXCEPT !.RIR = coerce_rir(ed[i].RIR).value]]
        inv == validate_current_routine(combined_df, ss, ticked)
        reset == [inv.session_state EXCEPT !.trigger_guardado = FALSE]
    IN  IF ~ss.trigger_guardado
        THEN /\ session_state' = ss
             /\ checkboxes' = Drawn(cb, {})
             /\ last_run' = LastRun("not triggered", FALSE, << >>, << >>, checks(ss))
             /\ gsheet_test' = gsheet_test
        ELSE IF ed = << >>
        THEN \* lines 211-213
             /\ session_state' = [ss EXCEPT !.trigger_guardado = FALSE]
             /\ checkboxes' = Drawn(cb, {})
             /\ last_run' = LastRun("no data", FALSE, << >>, << >>, checks(ss))
             /\ gsheet_test' = gsheet_test
        ELSE IF raised195
        THEN \* line 195 raises ValueError: the run stops
             /\ session_state' = ss
             /\ checkboxes' = Drawn(cb, {})
             /\ last_run' = LastRun("error", FALSE, << >>, << >>, checks(ss))
             /\ gsheet_test' = gsheet_test
        ELSE IF inv.raised
        THEN \* the validator raises: the run stops
             /\ session_state' = inv.session_state
             /\ checkboxes' = Drawn(cb, inv.shown)
             /\ last_run' = LastRun("error", TRUE, combined_df, << >>,
                                    checks(inv.session_state))
             /\ gsheet_test' = gsheet_test
        ELSE IF inv.none
        THEN \* lines 197-199: the trigger stays set
             /\ session_state' = inv.session_state
             /\ checkboxes' = Drawn(cb, inv.shown)
             /\ last_run' = LastRun("None", TRUE, combined_df, << >>,
                                    checks(inv.session_state))
             /\ gsheet_test' = gsheet_test
        ELSE \* lines 200-210: the write commits, or raises and is reported
             /\ checkboxes' = Drawn(cb, inv.shown)
             /\ \/ /\ gsheet_test' = load_data_into_gsheet(gsheet_test, inv.df)
                   /\ session_state' = reset
                   /\ last_run' = LastRun("saved", TRUE, combined_df, inv.df,
                                          checks(inv.session_state))
                \/ /\ gsheet_test' = gsheet_test
                   /\ session_state' = inv.session_state
                   /\ last_run' = LastRun("save failed", TRUE, combined_df, inv.df,
                                          checks(inv.session_state))

\* Line 201: st.success("Datos guardados correctamente.") is reached in the
\* runs that go on to call load_data_into_gsheet, before the call.
success_shown(outcome) == outcome \in {"saved", "save failed"}

\* The page before the athlete has touched it in this session.
PageIdle ==
    /\ session_state = NewSession
    /\ editor = << >>
    /\ checkboxes = NoChecks
    /\ gsheet_test = EmptySheet
    /\ last_run = NoRun

-----------------------------------------------------------------------------
(* Specification SpecCleaning: complete_cleaning applied to one batch      *)

InitTables ==
    /\ workouts = << SeedSet >>
    /\ workouts_by_muscle = FanOut(<< SeedSet >>)

InitCleaning ==
    /\ cc_input \in Batches
    /\ cc_metrics \in BodyweightLogs
    /\ cc_result = PendingResult
    /\ InitTables
    /\ track = << >>
    /\ run = [p \in {1} |-> IdleRun]
    /\ PageIdle

\* etl_personal_cleaning.py line 114: complete_cleaning(df, muscle_roles).
RunCompleteCleaning ==
    /\ ~cc_result.done
    /\ LET out == complete_cleaning(cc_input, MuscleRoles, workouts)
       IN  cc_result' = [done |-> TRUE, ok |-> out.ok, df |-> out.df,
                         df_by_muscle |-> out.df_by_muscle]
    /\ UNCHANGED <<cc_input, cc_metrics, workouts, workouts_by_muscle, track, run>>
    /\ UNCHANGED page_vars

SpecCleaning == InitCleaning /\ [][RunCompleteCleaning]_vars

-----------------------------------------------------------------------------
(* Properties of complete_cleaning (checked under SpecCleaning)            *)

\* The rows of the muscle output that carry the id of a set.
RowsOfSet(df_by_muscle, id) == SelectSeq(df_by_muscle, LAMBDA m : m.id_set = id)

\* The attributed set count the specification gives a multiplier, in tenths.
SetCountOf(multiplier) ==
    CASE multiplier = 10 -> 10
      [] multiplier = 5 -> 5
      [] multiplier = 1 -> 0

\* C7: for every emitted set whose exercise has k >= 1 mapping rows, the
\* muscle output holds exactly k rows with the set's id, one per mapping row
\* (muscle, role, multiplier), each with attributed workload = workload x
\* multiplier, attributed set count 1 / 0.5 / 0 for multiplier 1.0 / 0.5 /
\* 0.1, and is_primary = 1 exactly when the set count is 1.
C7_FanOutPerMappingEntry ==
    (cc_result.done /\ cc_result.ok) =>
        \A i \in 1..Len(cc_result.df) :
            LET set  == cc_result.df[i]
                m    == RolesOf(set.exercise, MuscleRoles)
                rows == RowsOfSet(cc_result.df_by_muscle, set.id_set)
                \* ids are unique in the batch, so rows are this set's rows
            IN  Len(m) >= 1 =>
                  /\ Len(rows) = Len(m)
                  /\ \A k \in 1..Len(m) :
                        /\ rows[k].muscle_name = m[k].muscle_name
                        /\ rows[k].id_set = set.id_set
                        /\ rows[k].workload_by_muscle =
                              (IF IsNaN(set.workload) THEN NaN
                               ELSE Num(Val(set.workload) * m[k].rol_multiplier))
                        /\ rows[k].sets_by_muscle = SetCountOf(m[k].rol_multiplier)
                        /\ (rows[k].is_set_principal_for_muscle = 1
                               <=> rows[k].sets_by_muscle = 10)
                        /\ rows[k].is_set_principal_for_muscle \in {0, 1}

\* C7 witness: a one-set batch, a bench press of workload 500 kg x reps
\* (5 reps of 100 kg), has fanned out into three rows with workloads
\* 500 / 250 / 50 and set counts 1 / 0.5 / 0.
C7_Witness ==
    /\ cc_result.done /\ cc_result.ok
    /\ Len(cc_result.df) = 1
    /\ cc_result.df[1].exercise = "Bench press"
    /\ cc_result.df[1].workload = Num(500000)
    /\ Len(cc_result.df_by_muscle) = 3
    /\ cc_result.df_by_muscle[1].workload_by_muscle = Num(5000000)
    /\ cc_result.df_by_muscle[2].workload_by_muscle = Num(2500000)
    /\ cc_result.df_by_muscle[3].workload_by_muscle = Num(500000)
    /\ cc_result.df_by_muscle[1].sets_by_muscle = 10
    /\ cc_result.df_by_muscle[2].sets_by_muscle = 5
    /\ cc_result.df_by_muscle[3].sets_by_muscle = 0

\* C8: a set whose exercise has no mapping row has no row in the muscle
\* output and contributes no attributed set, while it is emitted in the
\* unattributed output (the batch is not aborted on its account).
C8_UnmappedSetHasNoMuscleRow ==
    (cc_result.done /\ cc_result.ok) =>
        \A i \in 1..Len(cc_result.df) :
            LET set  == cc_result.df[i]
                rows == RowsOfSet(cc_result.df_by_muscle, set.id_set)
            IN  RolesOf(set.exercise, MuscleRoles) = << >> =>
                  /\ rows = << >>
                  /\ SeqSum([k \in 1..Len(rows) |-> rows[k].sets_by_muscle]) = 0


\* C9: for every emitted set with a weight, estimated_1rm is null exactly
\* when true_lifted_weight < 50 kg or reps_potential <= 0 or reps > 8, and
\* otherwise it is the value nearest, to one decimal, to
\* true_lifted_weight / (1.0278 - 0.0278 x reps_potential); weight 100,
\* reps 5, RIR 2 gives 120.0.
C9_EstimatedOneRm ==
    (cc_result.done /\ cc_result.ok) =>
        \A i \in 1..Len(cc_result.df) :
            LET set == cc_result.df[i]
                rw  == Val(set.real_weight)
                rp  == reps_potential(set.repreal, set.rir)
                den == 10278 - 278 * rp
            IN  ~IsNaN(set.weight) =>
                  /\ IsNaN(set.rm) <=>
                        (rw < 50000 \/ rp <= 0 \/ Val(set.repreal) > 8)
                  /\ ~IsNaN(set.rm) =>
                        2 * Abs(Val(set.rm) * den - rw * 100) <= Abs(den)
                  /\ (rw = 100000 /\ set.repreal = Num(5) /\ set.rir = Num(2))
                        => set.rm = Num(1200)

\* C9 witness: a batch was cleaned in which a set of 9 reps of 100 kg has no
\* 1RM and a set of 5 reps of 100 kg at RIR 2 has the 1RM 120.0.
C9_Witness ==
    /\ cc_result.done /\ cc_result.ok
    /\ Len(cc_result.df) = 2
    /\ cc_result.df[1].repreal = Num(9)
    /\ cc_result.df[1].real_weight = Num(100000)
    /\ cc_result.df[1].rm = NaN
    /\ cc_result.df[2].repreal = Num(5)
    /\ cc_result.df[2].rir = Num(2)
    /\ cc_result.df[2].real_weight = Num(100000)
    /\ cc_result.df[2].rm = Num(1200)

\* C10: for every emitted set with a weight, true_lifted_weight is weight +
\* the bodyweight estimated for the set's date from the loaded samples when
\* the exercise is on the bodyweight allow-list, and the weight otherwise.
C10_TrueLiftedWeight ==
    (cc_result.done /\ cc_result.ok) =>
        \A i \in 1..Len(cc_result.df) :
            LET set == cc_result.df[i]
                estimated_bodyweight == current_bodyweight(set.fecha, cc_metrics)[1]
            IN  ~IsNaN(set.weight) =>
                  set.real_weight =
                     (IF set.exercise \in weight_body_exercises
                      THEN Num(Val(set.weight) + estimated_bodyweight)
                      ELSE set.weight)

-----------------------------------------------------------------------------
(* The ETL script tests/etl_personal_cleaning.py, one process per run      *)

\* The most rows the TrackRecord sheet holds in the model.
MaxTrack == 3

\* The latest training date logged in the model.
MaxDate == 2

\* The most runs of the script one writer makes.
MaxRuns == 2

\* The same three limits when two writers overlap.
MaxTrackConcurrent == 2

MaxDateConcurrent == 1

MaxRunsConcurrent == 1

TrackBound == IF Cardinality(DOMAIN run) = 1 THEN MaxTrack ELSE MaxTrackConcurrent

DateBound == IF Cardinality(DOMAIN run) = 1 THEN MaxDate ELSE MaxDateConcurrent

RunsBound == IF Cardinality(DOMAIN run) = 1 THEN MaxRuns ELSE MaxRunsConcurrent

\* The sets the athlete logs: a mapped and an unmapped exercise.
LoggedRows(first_date) ==
    { SheetRow(d, e, RangoTwo, Num(5), Num(100000), Num(2), FALSE) :
        d \in first_date..DateBound, e \in {"Bench press", "Plank"} }

\* A variant of the append that refuses a batch holding a stored id, as a
\* table with a unique key would.
dump_unique_ids(table, df) ==
    IF \E i \in 1..Len(table), j \in 1..Len(df) : table[i].id_set = df[j].id_set
    THEN table
    ELSE table \o df

\* dump_into_sql: df.to_sql(table_name, if_exists='append').
dump_into_sql(table, df) == table \o df

\* workouts['fecha'].max()
MaxFecha(table) ==
    CHOOSE d \in {table[i].fecha : i \in 1..Len(table)} :
        \A i \in 1..Len(table) : table[i].fecha <= d

InitEtl(writers) ==
    /\ cc_input = << >>
    /\ cc_metrics \in BodyweightLogs
    /\ cc_result = PendingResult
    /\ InitTables
    /\ track = << SeedInput >>
    /\ run = [p \in writers |-> IdleRun]
    /\ PageIdle

\* The athlete logs one more set in the sheet, on the last logged day or a
\* later one.
LogSet ==
    /\ Len(track) < TrackBound
    /\ \E r \in LoggedRows(track[Len(track)].fecha) : track' = Append(track, r)
    /\ UNCHANGED <<cc_input, cc_metrics, cc_result, workouts, workouts_by_muscle, run>>
    /\ UNCHANGED page_vars

\* Lines 74-76: a new process reads the TrackRecord sheet.
ReadSheet(p) ==
    /\ run[p].pc \in {"idle", "done"}
    /\ run[p].runs < RunsBound
    /\ run' = [run EXCEPT ![p] =
                  [IdleRun EXCEPT !.pc = "sheet_read", !.records = track,
                                  !.runs = run[p].runs]]
    /\ UNCHANGED <<cc_input, cc_metrics, cc_result, workouts, workouts_by_muscle, track>>
    /\ UNCHANGED page_vars

\* Lines 101-111: read table workouts, keep the rows newer than its latest
\* date.
FilterNewRows(p) ==
    /\ run[p].pc = "sheet_read"
    /\ LET max_date_sql == MaxFecha(workouts)
       IN  run' = [run EXCEPT ![p].pc = "filtered",
                              ![p].max_date_sql = max_date_sql,
                              ![p].df = SelectSeq(run[p].records,
                                          LAMBDA r : r.fecha > max_date_sql)]
    /\ UNCHANGED <<cc_input, cc_metrics, cc_result, workouts, workouts_by_muscle, track>>
    /\ UNCHANGED page_vars

\* Line 114: complete_cleaning, which queries the last id_set.
Transform(p) ==
    /\ run[p].pc = "filtered"
    /\ LET out == complete_cleaning(run[p].df, MuscleRoles, workouts)
       IN  run' = [run EXCEPT ![p].pc = "cleaned",
                              ![p].last_id = LastId(workouts),
                              ![p].out = [done |-> TRUE, ok |-> out.ok, df |-> out.df,
                                          df_by_muscle |-> out.df_by_muscle]]
    /\ UNCHANGED <<cc_input, cc_metrics, cc_result, workouts, workouts_by_muscle, track>>
    /\ UNCHANGED page_vars

\* Line 117: dump_into_sql(df, 'workouts').  The append commits, or raises
\* (df is None, or the database fails) and the error is printed.
DumpWorkouts(p) ==
    /\ run[p].pc = "cleaned"
    /\ \/ /\ run[p].out.ok
          /\ workouts' = dump_into_sql(workouts, run[p].out.df)
          /\ run' = [run EXCEPT ![p].pc = "dumped", ![p].dumped = TRUE]
       \/ /\ workouts' = workouts
          /\ run' = [run EXCEPT ![p].pc = "dumped", ![p].dumped = FALSE]
    /\ UNCHANGED <<cc_input, cc_metrics, cc_result, workouts_by_muscle, track>>
    /\ UNCHANGED page_vars

\* Line 118: dump_into_sql(df_by_muscle, 'workouts_by_muscle'); the process
\* ends.
DumpByMuscle(p) ==
    /\ run[p].pc = "dumped"
    /\ \/ /\ run[p].out.ok
          /\ workouts_by_muscle' = dump_into_sql(workouts_by_muscle, run[p].out.df_by_muscle)
          /\ run' = [run EXCEPT ![p].pc = "done", ![p].dumped_by_muscle = TRUE,
                                ![p].runs = run[p].runs + 1]
       \/ /\ workouts_by_muscle' = workouts_by_muscle
          /\ run' = [run EXCEPT ![p].pc = "done", ![p].dumped_by_muscle = FALSE,
                                ![p].runs = run[p].runs + 1]
    /\ UNCHANGED <<cc_input, cc_metrics, cc_result, workouts, track>>
    /\ UNCHANGED page_vars

NextEtl ==
    \/ LogSet
    \/ \E p \in DOMAIN run : ReadSheet(p)
    \/ \E p \in DOMAIN run : FilterNewRows(p)
    \/ \E p \in DOMAIN run : Transform(p)
    \/ \E p \in DOMAIN run : DumpWorkouts(p)
    \/ \E p \in DOMAIN run : DumpByMuscle(p)

\* One writer: the runs of the script follow one another.
SpecEtl == InitEtl({1}) /\ [][NextEtl]_vars

\* Two writers: two runs of the script may overlap.
SpecEtlConcurrent == InitEtl({1, 2}) /\ [][NextEtl]_vars

-----------------------------------------------------------------------------
(* Properties of the ETL script                                            *)

Quiescent == \A p \in DOMAIN run : run[p].pc \in {"idle", "done"}

HasDuplicateId(table) ==
    \E i, j \in 1..Len(table) : i # j /\ table[i].id_set = table[j].id_set

\* C4: with one writer, every stored set id is unique, and a batch of n rows
\* receives the ids m+1 .. m+n in row order, m being the largest id stored
\* when the batch is processed.
C4_UniqueContiguousIds ==
    /\ ~HasDuplicateId(workouts)
    /\ \A p \in DOMAIN run :
          (run[p].pc = "cleaned" /\ run[p].out.ok) =>
              /\ Len(run[p].out.df) = Len(run[p].df)
              /\ \A i \in 1..Len(run[p].out.df) :
                    run[p].out.df[i].id_set = LastId(workouts) + i

\* C4 witness: two runs have each stored a batch, and the stored ids are
\* 1, 2, 3.
C4_Witness ==
    /\ run[1].pc = "done" /\ run[1].runs = 2 /\ run[1].dumped
    /\ Len(workouts) = 3
    /\ \A i \in 1..3 : workouts[i].id_set = i

\* C5: two overlapping runs that read the same largest id are assigned
\* overlapping ids, and when both appends commit both batches are stored,
\* the table then holding one id twice: no step refuses the second batch.
C5_ConcurrentRunsCollide ==
    \A p, q \in DOMAIN run :
        (/\ p # q
         /\ run[p].pc \in {"cleaned", "dumped", "done"} /\ run[p].out.ok
         /\ run[q].pc \in {"cleaned", "dumped", "done"} /\ run[q].out.ok
         /\ run[p].last_id = run[q].last_id) =>
            /\ run[p].out.df[1].id_set = run[q].out.df[1].id_set
            /\ (run[p].dumped /\ run[q].dumped) =>
                  /\ HasDuplicateId(workouts)
                  /\ \A i \in 1..Len(run[p].out.df) :
                        \E k \in 1..Len(workouts) : workouts[k] = run[p].out.df[i]
                  /\ \A j \in 1..Len(run[q].out.df) :
                        \E k \in 1..Len(workouts) : workouts[k] = run[q].out.df[j]

\* C5 witness: both writers read the largest id 1 before either appended,
\* both appends committed, and the id 2 is stored twice.
C5_Witness ==
    /\ DOMAIN run = {1, 2}
    /\ run[1].pc = "done" /\ run[2].pc = "done"
    /\ run[1].runs = 1 /\ run[2].runs = 1
    /\ run[1].last_id = 1 /\ run[2].last_id = 1
    /\ run[1].dumped /\ run[2].dumped
    /\ \E i, j \in 1..Len(workouts) : i # j /\ workouts[i].id_set = 2 /\ workouts[j].id_set = 2

\* C6: whenever no run is under way, the stored muscle rows are exactly the
\* fan-out of the stored sets: no muscle row is stored twice, every muscle
\* row carries the id of a stored set, and every muscle row of a stored set
\* is stored.
C6_AttributionsAreFanOutOfStoredSets ==
    Quiescent =>
        /\ \A i, j \in 1..Len(workouts_by_muscle) :
              i # j => workouts_by_muscle[i] # workouts_by_muscle[j]
        /\ \A i \in 1..Len(workouts_by_muscle) :
              \E k \in 1..Len(workouts) :
                  workouts[k].id_set = workouts_by_muscle[i].id_set
        /\ SeqRange(FanOut(workouts)) \subseteq SeqRange(workouts_by_muscle)


-----------------------------------------------------------------------------
(* Specification SpecValidator: one session of the routine page            *)

\* The most rows the editors of the page hold in the model.
MaxEditorRows == 2

\* The session is followed up to this many committed writes of the sheet.
MaxSaves == 1

RangoInvalid == << "a", "b", "c" >>

\* The row the editor of a template exercise opens with (tables.py,
\* editable_dataframe): reps 0, weight 0.0, RIR null.
TemplateRow == EditorRow("Bench press", RangoTwo, Num(0), Num(0), RirNaN)

\* The row the editor adds: every cell null.
AddedRow == EditorRow(NA, << >>, NaN, NaN, RirNaN)

\* The contents the athlete gives the cells of a row: the values at the
\* thresholds of the rules for a template row, fewer for an added row.
IsAddedRow(r) == r.Ejercicio = NA

RangoCells(r) == IF IsAddedRow(r) THEN {<< >>} ELSE {RangoTwo, RangoInvalid}

RepsCells(r) == IF IsAddedRow(r) THEN {NaN, Num(5)} ELSE {Num(0), Num(5), Num(50)}

PesoCells(r) == IF IsAddedRow(r) THEN {NaN} ELSE {Num(0), Num(50100), Num(300000)}

RirCells(r) ==
    IF IsAddedRow(r) THEN {RirNaN, RirNum(2)}
    ELSE {RirNaN, RirNum(2), RirNum(7), RirText(<< "F" >>)}

\* Row r with one cell changed.
Edits(r) ==
    ({ [r EXCEPT !.Rango = v] : v \in RangoCells(r) }
        \cup { [r EXCEPT !.Reps = v] : v \in RepsCells(r) }
        \cup { [r EXCEPT !.Peso = v] : v \in PesoCells(r) }
        \cup { [r EXCEPT !.RIR = v] : v \in RirCells(r) }) \ {r}

pipeline_vars ==
    <<cc_input, cc_metrics, cc_result, workouts, workouts_by_muscle, track, run>>

InitValidator ==
    /\ cc_input = << >>
    /\ cc_metrics \in BodyweightLogs
    /\ cc_result = PendingResult
    /\ InitTables
    /\ track = << >>
    /\ run = [p \in {1} |-> IdleRun]
    /\ session_state = NewSession
    /\ editor = << TemplateRow >>
    /\ checkboxes = NoChecks
    /\ gsheet_test = EmptySheet
    /\ last_run = NoRun

\* Lines 189-190: the athlete presses "Guardar datos ingresados".
PressSave ==
    /\ gsheet_test.updates < MaxSaves
    /\ editor' = editor
    /\ ScriptRun([session_state EXCEPT !.trigger_guardado = TRUE], editor, checkboxes)
    /\ UNCHANGED pipeline_vars

\* The athlete ticks or unticks a checkbox the last run drew.
ToggleCheckbox ==
    \E k \in CheckKeys :
        /\ gsheet_test.updates < MaxSaves
        /\ checkboxes[k].shown
        /\ editor' = editor
        /\ ScriptRun(session_state, editor,
                     [checkboxes EXCEPT ![k].value = ~checkboxes[k].value])
        /\ UNCHANGED pipeline_vars

\* The athlete changes one cell of an editor (st.data_editor).
EditCell ==
    \E i \in 1..Len(editor) : \E r \in Edits(editor[i]) :
        LET ed == [editor EXCEPT ![i] = r]
        IN  /\ gsheet_test.updates < MaxSaves
            /\ editor' = ed
            /\ ScriptRun(session_state, ed, checkboxes)
            /\ UNCHANGED pipeline_vars

\* The athlete adds a row to an editor (num_rows="dynamic").
AddRow ==
    /\ gsheet_test.updates < MaxSaves
    /\ Len(editor) < MaxEditorRows
    /\ LET ed == Append(editor, AddedRow)
       IN  /\ editor' = ed
           /\ ScriptRun(session_state, ed, checkboxes)
    /\ UNCHANGED pipeline_vars

\* The athlete deletes the last row of an editor.
DeleteRow ==
    /\ gsheet_test.updates < MaxSaves
    /\ editor # << >>
    /\ LET ed == SubSeq(editor, 1, Len(editor) - 1)
       IN  /\ editor' = ed
           /\ ScriptRun(session_state, ed, checkboxes)
    /\ UNCHANGED pipeline_vars

NextValidator ==
    \/ PressSave
    \/ ToggleCheckbox
    \/ EditCell
    \/ AddRow
    \/ DeleteRow

SpecValidator == InitValidator /\ [][NextValidator]_vars

-----------------------------------------------------------------------------
(* Properties of the Field Validator (checked under SpecValidator)         *)

\* The last run handed validated_df to load_data_into_gsheet.
Promoted == last_run.outcome \in {"saved", "save failed"}

\* C1: validate_current_routine returns a cleaned batch only in an
\* invocation in which all six confirmation flags are true, and in every
\* other invocation it returns None and load_data_into_gsheet is not called.
C1_BatchOnlyWithAllSixFlags ==
    last_run.invoked =>
        /\ Promoted => all(last_run.checks)
        /\ ~all(last_run.checks) => last_run.outcome = "None"

\* C2: after any sequence of invocations in the session, a batch holding a
\* set (reps or weight entered) whose cleaned range fails is_valid_rango is
\* not promoted.
C2_InvalidRangeNeverPromoted ==
    (/\ last_run.invoked
     /\ \E i \in 1..Len(last_run.df) :
           /\ NumericSum(last_run.df[i]) # 0
           /\ ~is_valid_rango(clean_rango(last_run.df[i].Rango)))
        => ~Promoted

\* C3: after any sequence of earlier invocations in the session, a batch
\* holding a row with reps nonzero, weight nonzero and an RIR outside
\* F, f, 0, 1, 2, 3, 4, 5 is not promoted.
C3_InvalidRirNeverPromoted ==
    (/\ last_run.invoked
     /\ \E i \in 1..Len(last_run.df) :
           /\ ~IsNaN(last_run.df[i].Reps) /\ Val(last_run.df[i].Reps) # 0
           /\ ~IsNaN(last_run.df[i].Peso) /\ Val(last_run.df[i].Peso) # 0
           /\ last_run.df[i].RIR.text \notin valid_rirs)
        => ~Promoted

-----------------------------------------------------------------------------
(* Specification SpecRealWeight: add_real_weight_col applied, with the     *)
(* bodyweight samples, to one set                                          *)

\* The latest training date add_real_weight_col is applied to.
MaxTargetDate == 40

\* The dates and the weights of the bodyweight samples of the model, chosen
\* so that no daily change and no estimate falls on an exact half of the
\* last decimal np.round keeps (there the binary value decides the rounding).
SampleDates == {5, 8, 34}

SampleWeights == {79000, 80000, 81500}

\* The bodyweight logs: one to three samples, sorted by date, no date twice.
SortedLogs ==
    { s \in SeqsUpTo([fecha : SampleDates, peso : SampleWeights], 3) :
        /\ s # << >>
        /\ \A i \in 1..(Len(s) - 1) : s[i].fecha < s[i + 1].fecha }

InitRealWeight ==
    /\ cc_input \in { << SheetRow(d, "Pull-ups", RangoTwo, Num(5), Num(20000), Num(2), FALSE) >> :
                        d \in 0..MaxTargetDate }
    /\ cc_metrics \in SortedLogs
    /\ cc_result = PendingResult
    /\ InitTables
    /\ track = << >>
    /\ run = [p \in {1} |-> IdleRun]
    /\ PageIdle

\* add_real_weight_col(df, df_metrics=df_metrics): the rows of the merge,
\* each with its current_bodyweight and real_weight.
RunAddRealWeightCol ==
    /\ ~cc_result.done
    /\ LET merged(r) ==
              LET rows == add_real_weight_col(r.ejercicio, r.peso, r.fecha,
                                              WithMetrics(cc_metrics))
              IN  [i \in 1..Len(rows) |->
                      [fecha |-> r.fecha, exercise |-> r.ejercicio, weight |-> r.peso,
                       current_bodyweight |-> rows[i].current_bodyweight,
                       real_weight |-> rows[i].real_weight]]
       IN  cc_result' = [done |-> TRUE, ok |-> TRUE, df |-> FlatMap(merged, cc_input),
                         df_by_muscle |-> << >>]
    /\ UNCHANGED <<cc_input, cc_metrics, workouts, workouts_by_muscle, track, run>>
    /\ UNCHANGED page_vars

SpecRealWeight == InitRealWeight /\ [][RunAddRealWeightCol]_vars

-----------------------------------------------------------------------------
(* Properties of the bodyweight estimate (checked under SpecRealWeight)    *)

\* Sample k and sample k + 1 bracket the date t.
Brackets(samples, k, t) ==
    /\ k \in 1..(Len(samples) - 1)
    /\ samples[k].fecha <= t
    /\ t < samples[k + 1].fecha

\* gap x (b - the linear interpolation at t between sample k and k + 1),
\* in grams, gap being the days between the two samples.
InterpolationError(samples, k, t, b) ==
    LET prev == samples[k]
        next == samples[k + 1]
        gap  == next.fecha - prev.fecha
    IN  b * gap - (prev.peso * gap + (t - prev.fecha) * (next.peso - prev.peso))

\* C11 as stated: for a date bracketed by two consecutive samples the
\* estimated bodyweight equals, to the 2 decimals it is kept with, the
\* linear interpolation prev.weight + days x (next.weight - prev.weight) /
\* gap, and for a date on or after the last sample it equals the last
\* sample's weight.
C11_LinearInterpolationExact ==
    cc_result.done =>
        \A i \in 1..Len(cc_result.df) :
            LET t == cc_result.df[i].fecha
                b == Val(cc_result.df[i].current_bodyweight)
            IN  /\ \A k \in 1..(Len(cc_metrics) - 1) :
                      Brackets(cc_metrics, k, t) =>
                          2 * Abs(InterpolationError(cc_metrics, k, t, b))
                              <= 10 * (cc_metrics[k + 1].fecha - cc_metrics[k].fecha)
                /\ t >= cc_metrics[Len(cc_metrics)].fecha =>
                      b = cc_metrics[Len(cc_metrics)].peso

\* C11 amended: the estimate is the interpolation up to the two roundings of
\* the code, the daily change to 3 decimals and the result to 2: it differs
\* from the interpolation by at most 0.005 + 0.0005 x days kg, days counted
\* from the earlier sample; on or after the last sample it is the last
\* sample's weight to 2 decimals.  One row is returned per set.
C11_LinearInterpolationRounded ==
    cc_result.done =>
        /\ Len(cc_result.df) = Len(cc_input)
        /\ \A i \in 1..Len(cc_result.df) :
              LET t == cc_result.df[i].fecha
                  b == Val(cc_result.df[i].current_bodyweight)
                  last == cc_metrics[Len(cc_metrics)]
              IN  /\ \A k \in 1..(Len(cc_metrics) - 1) :
                        Brackets(cc_metrics, k, t) =>
                            2 * Abs(InterpolationError(cc_metrics, k, t, b))
                                <= (cc_metrics[k + 1].fecha - cc_metrics[k].fecha)
                                      * (10 + (t - cc_metrics[k].fecha))
                  /\ t >= last.fecha => 2 * Abs(b - last.peso) <= 10

\* C11 witness: a date strictly between two samples got an estimate that
\* differs from the interpolation in its second decimal.
C11_Witness ==
    /\ cc_result.done
    /\ Len(cc_result.df) = 1
    /\ \E k \in 1..(Len(cc_metrics) - 1) :
          /\ Brackets(cc_metrics, k, cc_result.df[1].fecha)
          /\ cc_result.df[1].fecha > cc_metrics[k].fecha
          /\ 2 * Abs(InterpolationError(cc_metrics, k, cc_result.df[1].fecha,
                                        Val(cc_result.df[1].current_bodyweight)))
                > 10 * (cc_metrics[k + 1].fecha - cc_metrics[k].fecha)

\* C12: for a date earlier than every sample the estimated bodyweight is
\* the weight of the earliest sample.
C12_BeforeFirstSampleIsEarliest ==
    cc_result.done =>
        \A i \in 1..Len(cc_result.df) :
            cc_result.df[i].fecha < cc_metrics[1].fecha =>
                cc_result.df[i].current_bodyweight = Num(cc_metrics[1].peso)

-----------------------------------------------------------------------------
(* Further properties of complete_cleaning (checked under SpecCleaning)    *)

\* The non-null 1RMs recorded for an exercise in a sequence of sets.
RecordedRms(exercise, sets) ==
    { Val(sets[k].rm) : k \in { j \in 1..Len(sets) :
                                  /\ sets[j].exercise = exercise
                                  /\ ~IsNaN(sets[j].rm) } }

\* C13: for every emitted set, is_maxrm is 1 exactly when the set's 1RM is
\* non-null and equals the largest non-null 1RM recorded for its exercise
\* over the stored history together with the batch (ties are all 1).
C13_PersonalRecordIsMaxOverHistory ==
    (cc_result.done /\ cc_result.ok) =>
        \A i \in 1..Len(cc_result.df) :
            LET set == cc_result.df[i]
                rms == RecordedRms(set.exercise, workouts \o cc_result.df)
            IN  (set.is_maxrm = 1) <=>
                    (~IsNaN(set.rm) /\ \A v \in rms : v <= Val(set.rm))

\* The ISO (year, week) of a date: day 0 is a Monday, so the weeks are the
\* runs of seven days from day 0 (strftime('%G-W%V')).
year_week(fecha) == fecha \div 7

\* The distinct training dates of a sequence of sets in the week of a date.
TrainingDatesOfWeek(fecha, sets) ==
    { sets[k].fecha : k \in { j \in 1..Len(sets) :
                                year_week(sets[j].fecha) = year_week(fecha) } }

\* C14: for every emitted set, training_days_on_week is the number of
\* distinct training dates, over the stored history together with the batch,
\* that fall in the ISO (year, week) of the set's date.
C14_TrainingDaysCountsDistinctDates ==
    (cc_result.done /\ cc_result.ok) =>
        \A i \in 1..Len(cc_result.df) :
            LET set == cc_result.df[i]
            IN  set.training_days_on_week =
                    Cardinality(TrainingDatesOfWeek(set.fecha,
                                                    workouts \o cc_result.df))

\* A row with a missing or malformed required field: a non-numeric cell, or
\* no reps, no weight or no rir.
Malformed(r) ==
    r.text_cell \/ IsNaN(r.reps) \/ IsNaN(r.peso) \/ IsNaN(r.rir)

\* C15: when exactly one row of the batch has a missing or malformed
\* required field, complete_cleaning still emits every row of the batch: the
\* offending row with null metrics, every other row with its metrics
\* computed as for a well-formed batch.
C15_MalformedRowIsolated ==
    (/\ cc_result.done
     /\ Cardinality({ i \in 1..Len(cc_input) : Malformed(cc_input[i]) }) = 1)
    => /\ cc_result.ok
       /\ Len(cc_result.df) = Len(cc_input)
       /\ \A i \in 1..Len(cc_input) :
             IF Malformed(cc_input[i])
             THEN /\ cc_result.df[i].workload = NaN
                  /\ cc_result.df[i].rm = NaN
             ELSE /\ cc_result.df[i].workload =
                        workload(cc_input[i].reps, cc_input[i].peso)
                  /\ cc_result.df[i].rm =
                        EnrichedSet(cc_input[i], cc_result.df[i].id_set).rm

-----------------------------------------------------------------------------
(* Further properties of the Field Validator (C16 checked under            *)
(* SpecValidator, C17 under SpecRerun, defined below)                      *)

\* C16: every invocation of validate_current_routine ends by returning None
\* or the cleaned batch, whatever the reps, weight and RIR cells of the
\* submitted batch (a batch of empty sets included): it never raises.
C16_ValidatorNeverRaises ==
    last_run.invoked => last_run.outcome # "error"

\* The checkbox of each confirmable category and its flag.
ConfirmableKeys ==
    [check_empty |-> "confirmed_empty", check_peso |-> "confirmed_peso",
     check_reps |-> "confirmed_reps", check_combo |-> "confirmed_combo"]

ConfirmedKeys ==
    {"confirmed_rir", "confirmed_empty", "confirmed_peso", "confirmed_reps",
     "confirmed_combo", "confirmed_rango"}

\* A step in which the validator is invoked again on the batch of the last
\* invocation, the operator having withdrawn no confirmation.
ReinvokedOnSameBatch ==
    /\ last_run.invoked /\ last_run'.invoked
    /\ last_run'.df = last_run.df
    /\ \A k \in CheckKeys : checkboxes[k].value => checkboxes'[k].value

\* C17 (as stated): when the validator is invoked again on the same batch
\* after the operator acts, every category that was satisfied or confirmed
\* in the earlier invocation stays confirmed and its rule is not run again
\* (the rule of a confirmable category that runs and finds its sets draws
\* its checkbox).
C17_ConfirmedRulesNotRunAgain ==
    [][ReinvokedOnSameBatch =>
          /\ \A f \in ConfirmedKeys : session_state[f] => session_state'[f]
          /\ \A k \in CheckKeys :
                session_state[ConfirmableKeys[k]] => ~checkboxes'[k].shown]_vars

\* C17 (amended): when the validator is invoked again on the same batch
\* after the operator acts, no confirmation withdrawn, every category that
\* was satisfied or confirmed in the earlier invocation is confirmed in the
\* later one, and the later one draws the checkboxes the earlier one drew
\* (every rule is evaluated in every invocation).
C17_ConfirmedStaysConfirmed ==
    [][ReinvokedOnSameBatch =>
          /\ \A f \in ConfirmedKeys : session_state[f] => session_state'[f]
          /\ \A k \in CheckKeys : checkboxes'[k].shown = checkboxes[k].shown]_vars

\* C17 witness: a batch with a set of 50 reps of 300 kg is pending after an
\* invocation in which the weights were confirmed by a checkbox an earlier
\* run drew, the reps not yet.
C17_Witness ==
    /\ last_run.outcome = "None"
    /\ \E i \in 1..Len(last_run.df) :
          /\ last_run.df[i].Peso = Num(300000)
          /\ last_run.df[i].Reps = Num(50)
    /\ checkboxes["check_peso"].value
    /\ session_state.confirmed_peso
    /\ ~session_state.confirmed_reps

-----------------------------------------------------------------------------
(* Specification SpecRerun: the reruns of the routine page on one pending  *)
(* batch, from the page states a session can be in                         *)

\* The most sets of a batch submitted in one rerun.
MaxRerunRows == 3

\* The sets a submitted batch is probed with: reps, weight and RIR at and
\* around the thresholds of the rules.
RerunProbeRows ==
    { EditorRow("Bench press", RangoTwo, reps, peso, rir) :
        reps \in {Num(0), Num(49), Num(50)},
        peso \in {Num(0), Num(299750), Num(300000)},
        rir \in {RirNum(0), RirNum(2), RirText(<< "F" >>), RirText(<< "f" >>)} }

\* The sets that may accompany a probed set: an empty set and a plain set.
RerunCompanionRows ==
    { EditorRow("Bench press", RangoTwo, Num(0), Num(0), RirNum(2)),
      EditorRow("Bench press", RangoTwo, Num(5), Num(50100), RirNum(2)) }

RerunBatches ==
    { << r >> \o tail : r \in RerunProbeRows,
                        tail \in SeqsUpTo(RerunCompanionRows, MaxRerunRows - 1) }

\* The page while a batch is pending: the trigger is set (lines 197-199
\* leave it set), the range and RIR flags are as earlier invocations left
\* them, and a checkbox an earlier run drew may be ticked.
InitRerun ==
    /\ cc_input = << >>
    /\ cc_metrics \in BodyweightLogs
    /\ cc_result = PendingResult
    /\ InitTables
    /\ track = << >>
    /\ run = [p \in {1} |-> IdleRun]
    /\ editor \in RerunBatches
    /\ session_state \in
          { [NewSession EXCEPT !.trigger_guardado = TRUE,
                               !.confirmed_rango = a, !.confirmed_rir = b] :
              a \in BOOLEAN, b \in BOOLEAN }
    /\ checkboxes \in
          { [k \in CheckKeys |-> [shown |-> t[k], value |-> t[k]]] :
              t \in [CheckKeys -> BOOLEAN] }
    /\ gsheet_test = EmptySheet
    /\ last_run = NoRun

\* The operator acts on the pending batch, its cells left as they are: the
\* save button or a checkbox, each followed by a rerun of the script.
NextRerun ==
    \/ PressSave
    \/ ToggleCheckbox

SpecRerun == InitRerun /\ [][NextRerun]_vars

-----------------------------------------------------------------------------
(* Properties of the reruns on one batch (checked under SpecRerun)         *)

\* The sets of a batch with reps = 0 and weight = 0.
EmptySets(df) == SelectSeq(df, LAMBDA r : r.Reps = Num(0) /\ r.Peso = Num(0))

\* C18: a batch in which more than 50% of the sets have reps = 0 and
\* weight = 0 is promoted only with the empty-set confirmation ticked, and
\* for a batch in which fewer than 50% do the confirmation is not asked for.
C18_EmptySetConfirmationByRatio ==
    last_run.invoked =>
        /\ (Promoted /\ 2 * Len(EmptySets(last_run.df)) > Len(last_run.df))
              => checkboxes["check_empty"].value
        /\ (last_run.outcome # "error"
                /\ 2 * Len(EmptySets(last_run.df)) < Len(last_run.df))
              => /\ ~checkboxes["check_empty"].shown
                 /\ session_state.confirmed_empty

\* The checkboxes of the anomaly categories of which a batch holds an
\* offending set: a weight >= 300 kg, reps >= 50, exactly one of reps and
\* weight equal to zero.
OffendingKeys(df) ==
    (IF \E i \in 1..Len(df) : Val(df[i].Peso) >= 300000
     THEN {"check_peso"} ELSE {})
    \cup (IF \E i \in 1..Len(df) : Val(df[i].Reps) >= 50
          THEN {"check_reps"} ELSE {})
    \cup (IF \E i \in 1..Len(df) : (Val(df[i].Reps) = 0) # (Val(df[i].Peso) = 0)
          THEN {"check_combo"} ELSE {})

AnomalyKeys == {"check_peso", "check_reps", "check_combo"}

\* C19: a batch holding an offending set of an anomaly category is promoted
\* only in an invocation in which the checkbox of that category is ticked;
\* for a category of which the batch holds no offending set the invocation
\* asks for no confirmation and sets the flag of the category.
C19_AnomaliesNeedOwnConfirmation ==
    last_run.invoked =>
        /\ Promoted =>
              \A k \in OffendingKeys(last_run.df) : checkboxes[k].value
        /\ last_run.outcome # "error" =>
              \A k \in AnomalyKeys \ OffendingKeys(last_run.df) :
                  /\ ~checkboxes[k].shown
                  /\ session_state[ConfirmableKeys[k]]

\* C19 witness: a batch with a set of 50 reps of 300 kg was promoted with
\* the weights and the reps confirmed, the ghost sets not asked for.
C19_Witness ==
    /\ Promoted
    /\ OffendingKeys(last_run.df) = {"check_peso", "check_reps"}
    /\ checkboxes["check_peso"].value
    /\ checkboxes["check_reps"].value
    /\ ~checkboxes["check_combo"].shown

\* The row of the sheet a logged set is read from by the pipeline: an RIR
\* that is not a number is a non-numeric cell.
LoggedSet(r) ==
    SheetRow(0, r.Ejercicio, r.Rango, r.Reps, r.Peso,
             IF r.RIR.kind = "num" THEN Num(r.RIR.num) ELSE NaN,
             r.RIR.kind = "text")

FailureOrZeroRir == {RirText(<< "F" >>), RirText(<< "f" >>), RirNum(0)}

\* C20: a batch with a set that has reps or weight, in which a set is logged
\* with RIR "F", "f" or 0, goes through the RIR rule without an error and
\* with the RIR flag set, and complete_cleaning marks each such set
\* effective_set = 1.
C20_FailureAndZeroRirAreValidAndEffective ==
    (/\ last_run # NoRun
     /\ \E i \in 1..Len(editor) : NumericSum(editor[i]) # 0
     /\ \E i \in 1..Len(editor) : editor[i].RIR \in FailureOrZeroRir)
    => /\ last_run.outcome # "error"
       /\ session_state.confirmed_rir
       /\ \A i \in 1..Len(editor) :
             editor[i].RIR \in FailureOrZeroRir =>
                LET out == complete_cleaning(<< LoggedSet(editor[i]) >>,
                                             MuscleRoles, workouts)
                IN  out.ok /\ out.df[1].effective_set = 1

-----------------------------------------------------------------------------
(* Specification SpecRango: the routine page saved with one or two sets    *)
(* whose Rango cells hold the texts below                                  *)

\* The numbers of a two-number range, as typed.
NumberTexts ==
    { << "8" >>,
      << "1", "2" >>,
      << "8", ".", "5" >>,
      << "1", "0", ".", "0" >> }

\* The separator of a two-number range with the whitespace around it.
SeparatorTexts ==
    { << "-" >>,
      << " ", "-", " " >>,
      << " ", "-" >>,
      << "-", " " >> }

\* The whitespace around a text.
PaddingTexts ==
    { << >>,
      << " " >> }

\* Texts in which one numeric substring is found.
OneNumberTexts ==
    { << "1", "2" >>,
      << "8", ".", "5" >>,
      << "1", "2", "." >>,
      << "-", "5" >>,
      << "1", "2", " ", "r", "e", "p", "s" >>,
      << "1", "2", " ", "R", "e", "p", "s" >>,
      << "x", "1", "2" >> }

\* Texts that are neither a number, a range nor a technique.
OtherTexts ==
    { << "a", "b", "c" >>,
      << "1", " ", "2", " ", "3" >>,
      << "8", "-", "1", "0", "-", "1", "2" >>,
      << "r", "a", "n", "d", "o", "m", " ", "t", "e", "x", "t", "o" >> }

\* A technique name in the letter cases of the model: as listed, lower,
\* upper, title, and lower with an upper-case second letter.
CaseVariants(s) ==
    { s, str_lower(s), [i \in 1..Len(s) |-> upper(s[i])], str_title(s),
      [i \in 1..Len(s) |-> IF i = 2 THEN upper(s[i]) ELSE lower(s[i])] }

TechniqueTexts == UNION { CaseVariants(s) : s \in eh_techniques }

Padded(S) == { l \o s \o r : l \in PaddingTexts, s \in S, r \in PaddingTexts }

\* A set of the page with reps, weight and RIR that no rule objects to.
RangoRow(rango) == EditorRow("Bench press", rango, Num(5), Num(50100), RirNum(2))

\* The batches: a range typed in both orders, or one set with another text.
RangoBatches ==
    { << RangoRow(l \o a \o s1 \o b \o r), RangoRow(b \o s2 \o a) >> :
        l \in PaddingTexts, r \in PaddingTexts, s1 \in SeparatorTexts,
        s2 \in SeparatorTexts, a \in NumberTexts, b \in NumberTexts }
    \cup { << RangoRow(x) >> :
             x \in Padded(OneNumberTexts) \cup Padded(TechniqueTexts)
                     \cup OtherTexts \cup {<< >>} }

InitRango ==
    /\ cc_input = << >>
    /\ cc_metrics \in BodyweightLogs
    /\ cc_result = PendingResult
    /\ InitTables
    /\ track = << >>
    /\ run = [p \in {1} |-> IdleRun]
    /\ editor \in RangoBatches
    /\ session_state = NewSession
    /\ checkboxes = NoChecks
    /\ gsheet_test = EmptySheet
    /\ last_run = NoRun

SpecRango == InitRango /\ [][PressSave]_vars

-----------------------------------------------------------------------------
(* Properties of clean_rango and is_valid_rango (checked under SpecRango)  *)

\* The cleaned range of row i of the promoted batch.
CleanedRango(i) == last_run.validated_df[i].Rango

\* Two texts holding the same two different numbers in opposite orders.
ReversedPair(s, t) ==
    LET ns == findall_numbers(s, 1)
        nt == findall_numbers(t, 1)
    IN  /\ Len(ns) = 2 /\ Len(nt) = 2
        /\ float_of_match(ns[1]) = float_of_match(nt[2])
        /\ float_of_match(ns[2]) = float_of_match(nt[1])
        /\ float_of_match(ns[1]) # float_of_match(ns[2])

\* C21: for numbers a # b and any whitespace around the separator, "a-b"
\* and "b-a" are cleaned to the same text, "min - max", the two numbers in
\* ascending order.
C21_RangeOrderedAscending ==
    (/\ Promoted /\ Len(editor) = 2
     /\ ReversedPair(editor[1].Rango, editor[2].Rango))
    => LET typed == findall_numbers(editor[1].Rango, 1)
           found == findall_numbers(CleanedRango(1), 1)
       IN  /\ CleanedRango(1) = CleanedRango(2)
           /\ Len(found) = 2
           /\ CleanedRango(1) = found[1] \o << " ", "-", " " >> \o found[2]
           /\ FloatLess(float_of_match(found[1]), float_of_match(found[2]))
           /\ {float_of_match(found[1]), float_of_match(found[2])}
                 = {float_of_match(typed[1]), float_of_match(typed[2])}

\* C21 witness: " 12 -8.5 " and "8.5- 12" were both promoted as "8.5 - 12".
C21_Witness ==
    /\ Promoted /\ Len(editor) = 2
    /\ editor[1].Rango = << " ", "1", "2", " ", "-", "8", ".", "5", " " >>
    /\ editor[2].Rango = << "8", ".", "5", "-", " ", "1", "2" >>
    /\ CleanedRango(1) = << "8", ".", "5", " ", "-", " ", "1", "2" >>
    /\ CleanedRango(2) = << "8", ".", "5", " ", "-", " ", "1", "2" >>

\* C22 (as stated): a text in which exactly one numeric substring is found
\* is cleaned to itself, trimmed, neither re-parsed nor re-cased.
C22_OneNumberTextUnchanged ==
    (/\ Promoted /\ Len(editor) = 1
     /\ Len(findall_numbers(editor[1].Rango, 1)) = 1)
    => CleanedRango(1) = strip(editor[1].Rango)

\* C22 (amended): a text in which exactly one numeric substring is found and
\* which, trimmed, float() parses is cleaned to itself, trimmed; a text with
\* one numeric substring that float() does not parse is title-cased.
C22_LoneNumberUnchanged ==
    (/\ Promoted /\ Len(editor) = 1
     /\ Len(findall_numbers(editor[1].Rango, 1)) = 1)
    => CleanedRango(1) =
          (IF float_accepts(strip(editor[1].Rango))
           THEN strip(editor[1].Rango)
           ELSE str_title(str_lower(strip(editor[1].Rango))))

\* C22 witness: " 12. " was promoted as "12." and "-5" as "-5".
C22_Witness ==
    /\ Promoted /\ Len(editor) = 1
    /\ \/ /\ editor[1].Rango = << " ", "1", "2", ".", " " >>
          /\ CleanedRango(1) = << "1", "2", "." >>
       \/ /\ editor[1].Rango = << "-", "5" >>
          /\ CleanedRango(1) = << "-", "5" >>

\* What the specification accepts as a range: empty, a technique name
\* without digits, or a text holding one or two numbers.
AcceptedRango(val) ==
    \/ val = << >>
    \/ /\ \A i \in 1..Len(val) : val[i] \notin Digits
       /\ str_capitalize(str_lower(strip(val))) \in eh_techniques
    \/ Len(findall_numbers(val, 1)) \in {1, 2}

\* C23: the validator finds the cleaned ranges of a batch valid exactly when
\* each is empty, or has no digits and names a technique, or holds one or
\* two numbers; a batch with any other range is reported and not promoted.
C23_ValidRangoIffNumberRangeOrTechnique ==
    last_run.invoked =>
        LET accepted == \A i \in 1..Len(last_run.df) :
                            AcceptedRango(clean_rango(last_run.df[i].Rango))
        IN  /\ session_state.confirmed_rango <=> accepted
            /\ ~accepted => last_run.outcome = "None"

\* A technique name in some letter case, with or without whitespace around.
IsTechniqueText(val) ==
    /\ \A i \in 1..Len(val) : val[i] \notin Digits
    /\ str_capitalize(str_lower(strip(val))) \in eh_techniques

\* C30: a recognized technique name in any letter case and with whitespace
\* around it is cleaned to a text that is_valid_rango accepts (the batch is
\* promoted) and that clean_rango leaves unchanged.
C30_TechniqueStaysValid ==
    (/\ last_run.invoked /\ Len(editor) = 1
     /\ IsTechniqueText(editor[1].Rango))
    => /\ session_state.confirmed_rango
       /\ Promoted
       /\ is_valid_rango(CleanedRango(1))
       /\ clean_rango(CleanedRango(1)) = CleanedRango(1)

\* C30 witness: " mYO-REPS " (and so on for the other letter cases) was
\* promoted as "Myo-Reps".
C30_Witness ==
    /\ Promoted /\ Len(editor) = 1
    /\ editor[1].Rango = << " ", "M", "Y", "O", "-", "R", "E", "P", "S", " " >>
    /\ CleanedRango(1) = << "M", "y", "o", "-", "R", "e", "p", "s" >>

-----------------------------------------------------------------------------
(* Forward fill of the exercise names (checked under SpecValidator)        *)

\* The rows of the submitted batch that line 70 keeps, by index.
KeptRows(df) ==
    SelectSeq([i \in 1..Len(df) |-> i], LAMBDA i : NumericSum(df[i]) # 0)

\* The name of the nearest row before row i that has a name, if any.
NearestName(df, i) ==
    LET named == { k \in 1..(i - 1) : df[k].Ejercicio # NA }
    IN  IF named = {} THEN NA
        ELSE df[CHOOSE k \in named : \A m \in named : m <= k].Ejercicio

\* C24: after promotion, every row whose exercise name was left blank
\* carries the name of the nearest preceding row of the submitted batch
\* that has a name.
C24_BlankNameTakesNearestPrecedingName ==
    Promoted =>
        \A j \in 1..Len(last_run.validated_df) :
            LET i == KeptRows(last_run.df)[j]
            IN  (last_run.df[i].Ejercicio = NA /\ NearestName(last_run.df, i) # NA)
                    => last_run.validated_df[j].Ejercicio
                          = NearestName(last_run.df, i)

-----------------------------------------------------------------------------
(* Potential reps (checked under SpecCleaning)                             *)

\* C25: for every emitted set, reps_potential is reps + max(RIR, 0): a
\* negative RIR, whatever its value, and a missing RIR contribute 0.
C25_RepsPotentialFloorsNegativeRir ==
    (cc_result.done /\ cc_result.ok) =>
        \A i \in 1..Len(cc_result.df) :
            LET set == cc_result.df[i]
            IN  ~IsNaN(set.repreal) =>
                  reps_potential(set.repreal, set.rir) =
                     Val(set.repreal)
                        + (IF IsNaN(set.rir) \/ Val(set.rir) < 0 THEN 0
                           ELSE Val(set.rir))

-----------------------------------------------------------------------------
(* Specification SpecBands: complete_cleaning applied to one set, its reps *)
(* and RIR running over the bands of add_category_cols                     *)

\* The most reps and the largest RIR of the set.
MaxBandReps == 17

MaxBandRir == 6

InitBands ==
    /\ cc_input \in
          { << SheetRow(10, "Bench press", RangoTwo, Num(reps), Num(100000),
                        Num(rir), FALSE) >> :
              reps \in 0..MaxBandReps, rir \in (-1)..MaxBandRir }
    /\ cc_metrics \in BodyweightLogs
    /\ cc_result = PendingResult
    /\ InitTables
    /\ track = << >>
    /\ run = [p \in {1} |-> IdleRun]
    /\ PageIdle

SpecBands == InitBands /\ [][RunCompleteCleaning]_vars

\* The band the specification gives a number of reps and an RIR.
RepsBand(reps) ==
    CASE reps <= 6 -> "Fuerza"
      [] reps >= 7 /\ reps <= 10 -> "Hipertrofia-Fuerza"
      [] reps >= 11 /\ reps <= 15 -> "Hipertrofia-Resistencia"
      [] reps > 15 -> "Resistencia"

RirBand(rir) ==
    CASE rir <= 0 -> "F|0"
      [] rir >= 1 /\ rir <= 3 -> "1|2|3"
      [] rir = 4 -> "4"
      [] rir > 4 -> "+5"

\* C26: every emitted set with reps >= 0 has the rep band of its reps (up
\* to 6, 7 to 10, 11 to 15, above 15) and every emitted set with RIR >= -1
\* the RIR band of its RIR (up to 0, 1 to 3, 4, above 4): one band each,
\* none missing.
C26_BandsPartitionRepsAndRir ==
    (cc_result.done /\ cc_result.ok) =>
        \A i \in 1..Len(cc_result.df) :
            LET set == cc_result.df[i]
            IN  /\ Val(set.repreal) >= 0 =>
                      /\ set.repreal_range # NA
                      /\ set.repreal_range = RepsBand(Val(set.repreal))
                /\ Val(set.rir) >= -1 =>
                      /\ set.rir_range # NA
                      /\ set.rir_range = RirBand(Val(set.rir))

\* C26 witness: sets of 6 and of 7 reps, and sets of RIR -1 and of RIR 4,
\* were emitted with the bands of the two sides of a boundary.
C26_Witness ==
    /\ cc_result.done /\ cc_result.ok
    /\ \/ /\ cc_result.df[1].repreal = Num(6)
          /\ cc_result.df[1].repreal_range = "Fuerza"
          /\ cc_result.df[1].rir = Num(-1)
          /\ cc_result.df[1].rir_range = "F|0"
       \/ /\ cc_result.df[1].repreal = Num(7)
          /\ cc_result.df[1].repreal_range = "Hipertrofia-Fuerza"
          /\ cc_result.df[1].rir = Num(4)
          /\ cc_result.df[1].rir_range = "4"

-----------------------------------------------------------------------------
(* Specification SpecQuarter: the routine page saved with one set whose    *)
(* weight runs over the multiples of 0.025 kg                              *)

\* The weights of the set, in steps of 25 g.
MaxWeightSteps == 60

InitQuarter ==
    /\ cc_input = << >>
    /\ cc_metrics \in BodyweightLogs
    /\ cc_result = PendingResult
    /\ InitTables
    /\ track = << >>
    /\ run = [p \in {1} |-> IdleRun]
    /\ editor \in
          { << EditorRow("Bench press", RangoTwo, Num(5), Num(25 * k), RirNum(2)) >> :
              k \in 0..MaxWeightSteps }
    /\ session_state = NewSession
    /\ checkboxes = NoChecks
    /\ gsheet_test = EmptySheet
    /\ last_run = NoRun

NextQuarter ==
    \/ PressSave
    \/ ToggleCheckbox

SpecQuarter == InitQuarter /\ [][NextQuarter]_vars

\* C27: after promotion every weight is an integer multiple of 0.25 kg, and
\* round(weight * 4) / 4 applied to it returns it unchanged.
C27_PromotedWeightIsQuarterMultiple ==
    Promoted =>
        \A i \in 1..Len(last_run.validated_df) :
            LET peso == Val(last_run.validated_df[i].Peso)
            IN  /\ peso % 250 = 0
                /\ (IF peso = 0 THEN 0 ELSE 250 * RoundDiv(peso * 4, 1000)) = peso

\* C27 witness: a weight of 1.125 kg was promoted as 1.0 kg, or one of
\* 1.4 kg as 1.5 kg.
C27_Witness ==
    /\ Promoted
    /\ \/ /\ editor[1].Peso = Num(1125)
          /\ last_run.validated_df[1].Peso = Num(1000)
       \/ /\ editor[1].Peso = Num(1400)
          /\ last_run.validated_df[1].Peso = Num(1500)

-----------------------------------------------------------------------------
(* The save trigger and the success message (checked under SpecValidator)  *)

\* C28: once save is pressed the trigger stays set for as long as the
\* validation returns None, and every later rerun invokes the validator on
\* the current batch; the trigger is cleared only by a write that returned
\* without error or by an empty batch; a failed write leaves it set, and
\* the next rerun on the batch attempts the write again.
C28_TriggerStaysUntilSaved ==
    [][/\ last_run'.outcome = "None" => session_state'.trigger_guardado
       /\ (session_state.trigger_guardado /\ editor' # << >>)
             => last_run'.invoked
       /\ (session_state.trigger_guardado /\ ~session_state'.trigger_guardado)
             => last_run'.outcome \in {"saved", "no data"}
       /\ last_run'.outcome = "save failed" => session_state'.trigger_guardado
       /\ (last_run.outcome = "save failed" /\ ReinvokedOnSameBatch)
             => last_run'.outcome \in {"saved", "save failed"}]_vars

\* C29: the success message is shown only in a run whose write to the sheet
\* has completed without error.
C29_SuccessOnlyAfterWrite ==
    success_shown(last_run.outcome) => last_run.outcome = "saved"

====
